---- MODULE Spec2Model ----
(***************************************************************************)
(* Proximate: remote object access over a message channel.                 *)
(*                                                                         *)
(* Two drafts of the runtime are modelled side by side.                    *)
(*   - the "wrap" draft   (src/src/Proximate.ts, lines 1-268): a           *)
(*     reference counted receiver registry (mapObjectToId, mapIdToObject), *)
(*     pluggable protocols, release of handles, revokeProxies;             *)
(*   - the "create" draft (src/unnamed/part_000): the proxies table with   *)
(*     PROXY_MARKER ids, enableProxy, a close method on the primary proxy. *)
(* Where both drafts have a definition of one name, the one of the create  *)
(* draft carries the suffix C.                                             *)
(*                                                                         *)
(* One connection joins process 1 and process 2.  Each process owns one    *)
(* local object "api": a function () => 42 that carries the members        *)
(* value (a number), store (keeps its argument), slow (returns a promise   *)
(* that settles later), bad (throws), echo (value => value) and foo, the   *)
(* plain object {bar: {value: 5}}.  The transport is a pair of FIFO        *)
(* queues; values a port cannot clone are not handed to it.  A handler     *)
(* runs in one step unless the function it calls returns a pending         *)
(* promise: then it is suspended and resumed when the promise settles.     *)
(*                                                                         *)
(* Specifications:                                                         *)
(*   Spec        the wrap draft, port1 wrapped with receiver api, port2    *)
(*               wrapped without a receiver;                               *)
(*   SpecPass    the wrap draft restricted to calls that pass functions    *)
(*               and proxies as arguments;                                 *)
(*   SpecAccess  the wrap draft restricted to writes and reads of members; *)
(*   SpecProtocols                                                         *)
(*               the wrap draft with the function protocol registered at   *)
(*               one peer, at both or at none;                             *)
(*   SpecAgain   the wrap draft with responses delivered twice or unasked; *)
(*   SpecTraps   the wrap draft restricted to the traps of a proxy;        *)
(*   SpecSlow    the wrap draft with a function that returns a pending     *)
(*               promise, under fairness of the listeners;                 *)
(*   SpecShare   two connections that pass the same receivers;             *)
(*   SpecForeign the wrap draft with messages of other senders;            *)
(*   SpecCodec   the wrap draft with protocols that overlap;               *)
(*   SpecWrap    the wrap draft with Proximate.wrap called while the       *)
(*               program runs;                                             *)
(*   SpecWrite   the wrap draft restricted to writes that fail;            *)
(*   SpecBoth    the wrap draft with a receiver at both peers and          *)
(*               callbacks, under fairness of the event loop;              *)
(*   SpecSettable                                                          *)
(*               the create draft with a settable target at one peer;      *)
(*   SpecTwo     the wrap draft with two connections between the processes *)
(*               and different primary receivers;                          *)
(*   SpecValues  the wrap draft restricted to calls of an identity         *)
(*               function with primitives and compounds;                   *)
(*   SpecCreate  the create draft, port1 created with target api, port2    *)
(*               created without a target;                                 *)
(*   SpecRepass  the create draft restricted to marking, passing, revoking *)
(*               and calling objects, with a longer run of requests;       *)
(*   SpecReopen  the create draft restricted to calling, closing and       *)
(*               creating again on a port that was closed.                 *)
(***************************************************************************)
EXTENDS Integers, Sequences, FiniteSets, TLC

\* Bounds of the model: the number of requests posted (MaxReq; MaxRepass in the
\* specification of revoke-and-pass-again), of ids minted (MaxIds) and of
\* invocations of one close method (MaxCloses); MaxTwo bounds the requests of
\* the specification of two connections, MaxHandles the handles a process
\* makes by reading properties, MaxBoth the calls of the users in the
\* specification of callbacks (each may be followed by one call back).
MaxBoth == 2
MaxReq == 2
MaxRepass == 4
MaxIds == 4
MaxCloses == 2
MaxTwo == 4
MaxHandles == 4

VARIABLES
  mapObjectToId,   \* wrap: per process, object -> id            (Proximate.ts:62)
  mapIdToObject,   \* wrap: per process, id -> [receiver, count] (Proximate.ts:63)
  protocols,       \* wrap: per process, the keys of Proximate.protocols in order
  endpoints,       \* wrap: the wrapped endpoints (Proximate.endpoints)
  wrapLog,         \* wrap: per call of Proximate.wrap on the running program, [ep, threw]
  defaultId,       \* per endpoint, the id of the primary receiver
  requests,        \* per endpoint, nonce -> promise of the pending request
  proxies,         \* create: per process, id -> [target, count] (part_000:21)
  marker,          \* create: object -> PROXY_MARKER id
  relay,           \* create: endpoints whose port carries RELAY_MARKER (listener attached)
  primary,         \* create: per proxy Proximate.create returned, what its close method
                   \*         captured: [id, target, closes] (closes counts its invocations)
  hasTarget,       \* create: endpoints created with options.target
  portClosed,      \* create: endpoints whose port was closed
  chan,            \* per endpoint, the messages posted to it and not yet delivered
  handles,         \* every proxy handed out: [ep, path, revoked, held, threw]
  tasks,           \* per endpoint, the request handlers suspended on a pending promise
  heap,            \* object -> property -> value
  promises,        \* per nonce, the state of the promise sendRequest returned
  reqLog,          \* per nonce, the proxy the request was posted through
  execLog,         \* per nonce, what the dispatcher did with the request
  idCount,         \* receiver ids minted so far
  revokedIds       \* ids that revokeProxies removed from a registry

vars == << mapObjectToId, mapIdToObject, protocols, endpoints, wrapLog, defaultId, requests,
           proxies, marker, relay, primary, hasTarget, portClosed,
           chan, handles, tasks, heap, promises, reqLog, execLog, idCount, revokedIds >>


----------------------------------------------------------------------------
\* The universe.

Procs == {1, 2}
Endpoints == {<<1, 1>>, <<1, 2>>}
\* The endpoints of two connections between the processes: <<connection, process>>.
EndpointsTwo == {1, 2} \X Procs
Proc(e) == e[2]
Peer(e) == <<e[1], 3 - e[2]>>

Nonces == 1..(CHOOSE m \in {MaxReq, MaxRepass, MaxTwo, 2 * MaxBoth} :
                \A k \in {MaxReq, MaxRepass, MaxTwo, 2 * MaxBoth} : m >= k)
IdNames == <<"i1", "i2", "i3", "i4", "i5", "i6">>
NoId == "undefined"

ObjNames == {"api", "store", "slow", "bad", "echo", "call", "foo", "bar"}
Objects == Procs \X ObjNames
Functions == {"api", "store", "slow", "bad", "echo", "call"}
Props == {"value", "store", "slow", "bad", "echo", "call", "foo", "bar", "nope", "x"}

\* Values of the program.
Undefined == [t |-> "undef"]
Null == [t |-> "null"]
Prim(v) == [t |-> "prim", v |-> v]
Bool(b) == [t |-> "bool", b |-> b]
Str(s) == [t |-> "str", s |-> s]
ObjRef(o) == [t |-> "obj", o |-> o]
HandleRef(h) == [t |-> "handle", h |-> h]
Err(m) == [t |-> "err", msg |-> m, stack |-> <<"at", m>>]
\* A plain record or array: its own keys and their values.
Compound(fields) == [t |-> "compound", fields |-> fields]

IsObject(v) == v.t \in {"obj", "handle", "err", "compound"}
IsFunction(v) == \/ v.t = "handle"
                 \/ v.t = "obj" /\ v.o[2] \in Functions

InitHeap ==
  [o \in Objects |->
     [p \in Props |->
        IF o[2] = "api" /\ p = "value" THEN Prim(42)
        ELSE IF o[2] = "api" /\ p \in {"store", "slow", "bad", "echo", "call", "foo"} THEN ObjRef(<<o[1], p>>)
        ELSE IF o[2] = "foo" /\ p = "bar" THEN ObjRef(<<o[1], "bar">>)
        ELSE IF o[2] = "bar" /\ p = "value" THEN Prim(5)
        ELSE Undefined]]

Remove(f, k) == [x \in DOMAIN f \ {k} |-> f[x]]
Put(f, k, v) == [x \in DOMAIN f \cup {k} |-> IF x = k THEN v ELSE f[x]]

----------------------------------------------------------------------------
\* Nonces.  A nonce is 24 random characters; the model hands out fresh ones.

nonce(n) == IdNames[n + 1]

----------------------------------------------------------------------------
\* wrap draft: the receiver registry.  R is a process's registry with the
\* count of ids minted so far: [o2i, i2o, ids].

\* An incReceiverRef that mints an id for every registration.
incReceiverRefFresh(R, receiver) ==
  LET id == nonce(R.ids) IN
  [id |-> id,
   R  |-> [o2i |-> Put(R.o2i, receiver, id),
           i2o |-> Put(R.i2o, id, [receiver |-> receiver, count |-> 1]),
           ids |-> R.ids + 1]]

incReceiverRef(R, receiver) ==
  LET known == receiver \in DOMAIN R.o2i
      id    == IF known THEN R.o2i[receiver] ELSE nonce(R.ids)
      entry == IF known THEN R.i2o[id] ELSE [receiver |-> receiver, count |-> 0]
  IN  [id |-> id,
       R  |-> [o2i |-> Put(R.o2i, receiver, id),
               i2o |-> Put(R.i2o, id, [entry EXCEPT !.count = @ + 1]),
               ids |-> IF known THEN R.ids ELSE R.ids + 1]]

\* A clearReceiverRefs that removes nothing.
clearReceiverRefsKeep(R, receiver) == R

clearReceiverRefs(R, receiver) ==
  IF receiver \in DOMAIN R.o2i
    THEN [R EXCEPT !.o2i = Remove(R.o2i, receiver),
                   !.i2o = Remove(R.i2o, R.o2i[receiver])]
    ELSE R

\* A decReceiverRef that lowers the count of every registered receiver.
decReceiverRefAll(R, receiver) ==
  IF receiver \in DOMAIN R.o2i
    THEN LET keep == {o \in DOMAIN R.o2i : R.i2o[R.o2i[o]].count > 1}
         IN  [R EXCEPT !.o2i = [o \in keep |-> R.o2i[o]],
                       !.i2o = [id \in {R.o2i[o] : o \in keep} |->
                                  [R.i2o[id] EXCEPT !.count = @ - 1]]]
    ELSE R

\* A decReceiverRef that decrements nothing.
decReceiverRefNone(R, receiver) == R

\* A decReceiverRef that drops the entry at the first decrement.
decReceiverRefClear(R, receiver) ==
  IF receiver \in DOMAIN R.o2i
    THEN [R EXCEPT !.o2i = Remove(R.o2i, receiver),
                   !.i2o = Remove(R.i2o, R.o2i[receiver])]
    ELSE R

\* A decReceiverRef that leaves the entry in the maps when its count reaches zero.
decReceiverRefKeep(R, receiver) ==
  IF receiver \in DOMAIN R.o2i
    THEN [R EXCEPT !.i2o[R.o2i[receiver]].count = @ - 1]
    ELSE R

decReceiverRef(R, receiver) ==
  IF receiver \in DOMAIN R.o2i
    THEN LET id == R.o2i[receiver]
             R1 == [R EXCEPT !.i2o[id].count = @ - 1]
         IN  IF R1.i2o[id].count = 0 THEN clearReceiverRefs(R1, receiver) ELSE R1
    ELSE R

----------------------------------------------------------------------------
\* wrap draft: the codec.  P is the process's protocol keys in registration order.

\* The truth value JavaScript gives a value in a condition.
Truthy(v) ==
  IF v.t \in {"undef", "null"} THEN FALSE
  ELSE IF v.t = "prim" THEN v.v # 0
  ELSE IF v.t = "bool" THEN v.b
  ELSE IF v.t = "str" THEN v.s # ""
  ELSE TRUE

\* errorProtocol accepts an Error, the protocol registered as 'function' what
\* typeof calls a function, and the one registered as 'object', a ProxyProtocol
\* of the user, every object.
canHandle(key, data) ==
  IF key = "_error" THEN data.t = "err"
  ELSE IF key = "object" THEN IsObject(data)
  ELSE IsFunction(data)

\* An errorProtocol.serialize that leaves the stack behind.
handlerSerializeNoStack(key, R, data) ==
  IF key = "_error"
    THEN [wire |-> [message |-> data.msg, stack |-> <<>>], R |-> R]
    ELSE LET r == incReceiverRef(R, data) IN [wire |-> r.id, R |-> r.R]

\* A ProxyProtocol.serialize that sends an id without registering the receiver.
handlerSerializeUnregistered(key, R, data) ==
  IF key = "_error"
    THEN [wire |-> [message |-> data.msg, stack |-> data.stack], R |-> R]
    ELSE [wire |-> nonce(R.ids), R |-> R]

handlerSerialize(key, R, data) ==
  IF key = "_error"
    THEN [wire |-> [message |-> data.msg, stack |-> data.stack], R |-> R]
    ELSE LET r == incReceiverRef(R, data) IN [wire |-> r.id, R |-> r.R]

\* A serialize that lets the protocol registered last take the value.
serializeLast(P, R, data) ==
  LET hits == {i \in 1..Len(P) : canHandle(P[i], data)} IN
  IF hits # {}
    THEN LET i == CHOOSE j \in hits : \A k \in hits : j >= k
             s == handlerSerialize(P[i], R, data)
         IN  [wire |-> [type |-> P[i], data |-> s.wire], R |-> s.R]
    ELSE IF IsObject(data)
      THEN [wire |-> [data |-> data], R |-> R]
      ELSE [wire |-> data, R |-> R]

\* A serialize that sends a compound as it is, without the {data} wrapper.
serializeBare(P, R, data) ==
  LET hits == {i \in 1..Len(P) : canHandle(P[i], data)} IN
  IF hits # {}
    THEN LET i == CHOOSE j \in hits : \A k \in hits : j <= k
             s == handlerSerialize(P[i], R, data)
         IN  [wire |-> [type |-> P[i], data |-> s.wire], R |-> s.R]
    ELSE [wire |-> data, R |-> R]

serialize(P, R, data) ==
  LET hits == {i \in 1..Len(P) : canHandle(P[i], data)} IN
  IF hits # {}
    THEN LET i == CHOOSE j \in hits : \A k \in hits : j <= k
             s == handlerSerialize(P[i], R, data)
         IN  [wire |-> [type |-> P[i], data |-> s.wire], R |-> s.R]
    ELSE IF IsObject(data)
      THEN [wire |-> [data |-> data], R |-> R]
      ELSE [wire |-> data, R |-> R]

\* What the transport cannot clone: a function, a proxy or a record of functions
\* sent as plain data.  A compound of primitives and compounds is cloned.
Cloneable(wire) ==
  ("data" \in DOMAIN wire /\ "type" \notin DOMAIN wire) => wire.data.t = "compound"

createLocalProxy(H, e, path, held) ==
  Append(H, [ep |-> e, path |-> path, revoked |-> FALSE, held |-> held, threw |-> FALSE,
             local |-> {}])

\* data.type and data.data of a value that arrived: a key of the wrapper
\* serialize made, or a member of a compound of the sender's own.
WireType(wire) ==
  IF "t" \in DOMAIN wire
    THEN IF wire.t = "compound" /\ "type" \in DOMAIN wire.fields
           THEN wire.fields["type"] ELSE Undefined
    ELSE IF "type" \in DOMAIN wire THEN Str(wire.type) ELSE Undefined

WireData(wire) ==
  IF "t" \in DOMAIN wire
    THEN IF wire.t = "compound" /\ "data" \in DOMAIN wire.fields
           THEN wire.fields["data"] ELSE Undefined
    ELSE IF "data" \in DOMAIN wire THEN wire.data ELSE Undefined

deserialize(P, e, H, wire, held) ==
  IF "t" \in DOMAIN wire /\ ~IsObject(wire)
    THEN [ok |-> TRUE, v |-> wire, H |-> H]
  ELSE IF Truthy(WireType(wire))
    THEN LET type == WireType(wire) IN
         IF type.t # "str" \/ \A i \in 1..Len(P) : P[i] # type.s
           THEN [ok |-> FALSE, v |-> Err("unexpected protocol"), H |-> H]
         ELSE IF type.s = "_error"
           THEN [ok |-> TRUE,
                 v |-> [t |-> "err", msg |-> WireData(wire).message,
                        stack |-> WireData(wire).stack],
                 H |-> H]
           ELSE [ok |-> TRUE, v |-> HandleRef(Len(H) + 1),
                 H |-> createLocalProxy(H, e, <<WireData(wire)>>, held)]
    ELSE [ok |-> TRUE, v |-> WireData(wire), H |-> H]

\* message.args.map(arg => this.deserialize(endpoint, arg)): stops at the first throw.
RECURSIVE deserializeArgs(_, _, _, _, _)
deserializeArgs(P, e, H, args, held) ==
  IF args = <<>> THEN [ok |-> TRUE, vals |-> <<>>, H |-> H, v |-> Undefined]
  ELSE LET d == deserialize(P, e, H, Head(args), held) IN
       IF ~d.ok THEN [ok |-> FALSE, vals |-> <<>>, H |-> d.H, v |-> d.v]
       ELSE LET rest == deserializeArgs(P, e, d.H, Tail(args), held) IN
            [rest EXCEPT !.vals = <<d.v>> \o @]

RECURSIVE serializeArgs(_, _, _)
serializeArgs(P, R, args) ==
  IF args = <<>> THEN [wires |-> <<>>, R |-> R]
  ELSE LET s == serialize(P, R, Head(args))
           rest == serializeArgs(P, s.R, Tail(args))
       IN  [wires |-> <<s.wire>> \o rest.wires, R |-> rest.R]

----------------------------------------------------------------------------
\* The receivers.

GetMember(hp, v, prop) ==
  IF v.t = "obj" THEN hp[v.o][prop] ELSE Undefined

\* A path walk that reads the first name and ignores the rest.
WalkShallow(hp, parent, receiver, props) ==
  IF props = <<>> THEN [ok |-> TRUE, parent |-> parent, receiver |-> receiver]
  ELSE [ok |-> TRUE, parent |-> receiver, receiver |-> GetMember(hp, receiver, Head(props))]

\* for (const property of message.path) { parent = receiver; receiver = await receiver[property]; }
RECURSIVE Walk(_, _, _, _)
Walk(hp, parent, receiver, props) ==
  IF props = <<>> THEN [ok |-> TRUE, parent |-> parent, receiver |-> receiver]
  ELSE IF receiver.t \in {"undef", "null"}
    THEN [ok |-> FALSE, parent |-> parent, receiver |-> receiver]
  ELSE Walk(hp, receiver, GetMember(hp, receiver, Head(props)), Tail(props))

\* receiver.apply(parent, args) for the functions of the universe.
Apply(receiver, args) ==
  IF receiver.t # "obj" \/ receiver.o[2] \notin Functions
    THEN [k |-> "error", v |-> Err("TypeError")]
  ELSE IF receiver.o[2] = "api" THEN [k |-> "result", v |-> Prim(42)]
  ELSE IF receiver.o[2] = "store" THEN [k |-> "result", v |-> Prim(1)]
  ELSE IF receiver.o[2] \in {"slow", "call"} THEN [k |-> "pending", v |-> Undefined]
  ELSE IF receiver.o[2] = "echo"
    THEN [k |-> "result", v |-> IF args = <<>> THEN Undefined ELSE args[1]]
  ELSE [k |-> "error", v |-> Err("boom")]

\* The handles a receiver keeps: store keeps its arguments, the others drop them.
Keeps(receiver) == receiver.t = "obj" /\ receiver.o[2] = "store"

Retain(H0, H1, keep) ==
  [i \in 1..Len(H1) |-> IF i > Len(H0) /\ keep THEN [H1[i] EXCEPT !.held = TRUE] ELSE H1[i]]

----------------------------------------------------------------------------
\* Shared plumbing: the initial state, the transport, the promises.

EmptyMap == <<>>
NoPromise == [s |-> "none", v |-> Undefined, calls |-> 0]
NoExec == [delivered |-> 0, posted |-> 0, k |-> "none", v |-> Undefined, stale |-> FALSE,
           message |-> EmptyMap]

\* A wrap that keeps one primary id for all the connections of the process.
wrapShared(S, e, receiver) ==
  LET p == Proc(e)
      R == [o2i |-> S.o2i[p], i2o |-> S.i2o[p], ids |-> S.ids]
      r == IF receiver = Undefined THEN [id |-> NoId, R |-> R]
           ELSE incReceiverRef(R, receiver)
  IN  [o2i |-> [S.o2i EXCEPT ![p] = r.R.o2i],
       i2o |-> [S.i2o EXCEPT ![p] = r.R.i2o],
       ids |-> r.R.ids,
       defaultId |-> [x \in DOMAIN S.defaultId |->
                        IF Proc(x) = p THEN r.id ELSE S.defaultId[x]],
       handles |-> createLocalProxy(S.handles, e, <<"">>, TRUE)]

\* Proximate.wrap(endpoint, {receiver}) applied to state S = [R1, R2, defaultId,
\* handles]; receiver = Undefined stands for a wrap without a receiver.
wrap(S, e, receiver) ==
  LET p == Proc(e)
      R == [o2i |-> S.o2i[p], i2o |-> S.i2o[p], ids |-> S.ids]
      r == IF receiver = Undefined THEN [id |-> NoId, R |-> R]
           ELSE incReceiverRef(R, receiver)
  IN  [o2i |-> [S.o2i EXCEPT ![p] = r.R.o2i],
       i2o |-> [S.i2o EXCEPT ![p] = r.R.i2o],
       ids |-> r.R.ids,
       defaultId |-> [S.defaultId EXCEPT ![e] = r.id],
       handles |-> createLocalProxy(S.handles, e, <<"">>, TRUE)]

Unwrapped ==
  [o2i |-> [p \in Procs |-> EmptyMap], i2o |-> [p \in Procs |-> EmptyMap], ids |-> 0,
   defaultId |-> [e \in Endpoints |-> NoId], handles |-> <<>>]

\* The state after Proximate.wrap(port1, {receiver: api}) in process 1 and
\* Proximate.wrap(port2) in process 2, as the tests set a connection up.
Init ==
    LET S == wrap(wrap(Unwrapped, <<1, 1>>, ObjRef(<<1, "api">>)), <<1, 2>>, Undefined) IN
    /\ mapObjectToId = S.o2i
    /\ mapIdToObject = S.i2o
    /\ idCount = S.ids
    /\ defaultId = S.defaultId
    /\ handles = S.handles
    /\ protocols = [p \in Procs |-> <<"_error">>]
    /\ endpoints = Endpoints
    /\ wrapLog = <<>>
    /\ requests = [e \in Endpoints |-> EmptyMap]
    /\ proxies = [p \in Procs |-> EmptyMap]
    /\ marker = EmptyMap
    /\ relay = {}
    /\ primary = EmptyMap
    /\ hasTarget = {}
    /\ portClosed = {}
    /\ chan = [e \in Endpoints |-> <<>>]
    /\ tasks = [e \in Endpoints |-> {}]
    /\ heap = InitHeap
    /\ promises = [n \in Nonces |-> NoPromise]
    /\ reqLog = <<>>
    /\ execLog = [n \in Nonces |-> NoExec]
    /\ revokedIds = {}

Reg(p) == [o2i |-> mapObjectToId[p], i2o |-> mapIdToObject[p], ids |-> idCount]

SetReg(p, R) ==
  /\ mapObjectToId' = [mapObjectToId EXCEPT ![p] = R.o2i]
  /\ mapIdToObject' = [mapIdToObject EXCEPT ![p] = R.i2o]
  /\ idCount' = R.ids

\* A transport that delivers the latest message first.
postMessageFirst(ch, e, message) == [ch EXCEPT ![Peer(e)] = <<message>> \o @]

\* endpoint.postMessage(message): the message joins the queue of the peer.
postMessage(ch, e, message) == [ch EXCEPT ![Peer(e)] = Append(@, message)]

\* A settle that resolves whatever the response says.
settleResolved(pr, how, v) ==
  IF pr.s = "pending" THEN [s |-> "fulfilled", v |-> v, calls |-> pr.calls + 1]
  ELSE [pr EXCEPT !.calls = @ + 1]

\* resolve / reject of a promise: only the first call settles it.
settle(pr, how, v) ==
  IF pr.s = "pending" THEN [s |-> how, v |-> v, calls |-> pr.calls + 1]
  ELSE [pr EXCEPT !.calls = @ + 1]

\* sendRequest: a fresh nonce, an entry in the pending table, one message posted.
\* The variables it writes: requests, promises, reqLog, chan.
\* via names the proxy used: handle h itself (direct) or a nested proxy h.m1.m2.
sendRequest(e, via, request) ==
  LET n == Len(reqLog) + 1 IN
  /\ requests' = [requests EXCEPT ![e] = Put(@, n, n)]
  /\ promises' = [promises EXCEPT ![n] = [s |-> "pending", v |-> Undefined, calls |-> 0]]
  /\ reqLog' = Append(reqLog, via)
  /\ chan' = postMessage(chan, e, [id |-> n] @@ request)

\* A use of a revoked proxy throws a TypeError before anything is sent.
Throws(h) ==
  /\ handles[h].revoked
  /\ ~handles[h].threw
  /\ handles' = [handles EXCEPT ![h].threw = TRUE]
  /\ UNCHANGED << mapObjectToId, mapIdToObject, protocols, endpoints, wrapLog, defaultId, requests,
                  proxies, marker, relay, primary, hasTarget, portClosed, chan, tasks, heap,
                  promises, reqLog, execLog, idCount, revokedIds >>

\* A proxy that release forgot to revoke.
UsableRevoked(h, members) == handles[h].held

\* The user can reach proxy h.m1.m2: h itself while it is not revoked; a nested
\* proxy h.m1 is a Proxy.revocable of its own (the get trap made it, posting
\* nothing, while h was live) and stays usable after h is revoked.
Usable(h, members) == handles[h].held /\ (members # <<>> \/ ~handles[h].revoked)

----------------------------------------------------------------------------
\* wrap draft: the operations of the public interface and of a proxy.

wrapKeep == << proxies, marker, relay, primary, hasTarget, portClosed >>

\* Proximate.protocols.set('function', new FunctionProtocol()), a ProxyProtocol.
protocolsSet(p) ==
  /\ reqLog = <<>>
  /\ \A i \in 1..Len(protocols[p]) : protocols[p][i] # "function"
  /\ protocols' = [protocols EXCEPT ![p] = Append(@, "function")]
  /\ UNCHANGED << mapObjectToId, mapIdToObject, endpoints, wrapLog, defaultId, requests, wrapKeep,
                  chan, handles, tasks, heap, promises, reqLog, execLog, idCount, revokedIds >>

\* Proximate.protocols.set('object', new ObjectProtocol()), a ProxyProtocol
\* whose canHandle accepts every object.
protocolsSetObject(p) ==
  /\ reqLog = <<>>
  /\ \A i \in 1..Len(protocols[p]) : protocols[p][i] # "object"
  /\ protocols' = [protocols EXCEPT ![p] = Append(@, "object")]
  /\ UNCHANGED << mapObjectToId, mapIdToObject, endpoints, wrapLog, defaultId, requests, wrapKeep,
                  chan, handles, tasks, heap, promises, reqLog, execLog, idCount, revokedIds >>

\* The apply trap: proxy.m1.m2(args).
apply(h, members, args) ==
  LET e == handles[h].ep
      p == Proc(e)
      s == serializeArgs(protocols[p], Reg(p), args)
  IN  /\ Usable(h, members)
      /\ s.R.ids <= MaxIds
      /\ \A i \in 1..Len(s.wires) : Cloneable(s.wires[i])
      /\ SetReg(p, s.R)
      /\ sendRequest(e, [h |-> h, direct |-> members = <<>>],
                     [path |-> handles[h].path \o members, args |-> s.wires])
      /\ UNCHANGED << protocols, endpoints, wrapLog, defaultId, wrapKeep, handles, tasks, heap,
                      execLog, revokedIds >>

\* The get trap for 'then' on a path longer than 1: await proxy.m1.m2.
then(h, members) ==
  LET e == handles[h].ep IN
  /\ Usable(h, members)
  /\ Len(handles[h].path \o members) > 1
  /\ sendRequest(e, [h |-> h, direct |-> FALSE], [path |-> handles[h].path \o members])
  /\ UNCHANGED << mapObjectToId, mapIdToObject, idCount, protocols, endpoints, wrapLog, defaultId,
                  wrapKeep, handles, tasks, heap, execLog, revokedIds >>

\* The set trap: proxy.m1.property = value.
set(h, members, property, value) ==
  LET e == handles[h].ep
      p == Proc(e)
      s == serialize(protocols[p], Reg(p), value)
  IN  /\ Usable(h, members)
      /\ s.R.ids <= MaxIds
      /\ Cloneable(s.wire)
      /\ SetReg(p, s.R)
      /\ sendRequest(e, [h |-> h, direct |-> members = <<>>],
                     [path |-> handles[h].path \o members \o <<property>>, value |-> s.wire])
      /\ UNCHANGED << protocols, endpoints, wrapLog, defaultId, wrapKeep, handles, tasks, heap,
                      execLog, revokedIds >>

\* A get trap that asks the peer for the property as soon as it is read.
getEager(h, property) ==
  LET e == handles[h].ep IN
  /\ Usable(h, <<>>)
  /\ property # "then"
  /\ Len(handles) < MaxHandles
  /\ handles' = createLocalProxy(handles, e, handles[h].path \o <<property>>, TRUE)
  /\ sendRequest(e, [h |-> h, direct |-> FALSE], [path |-> handles[h].path \o <<property>>])
  /\ UNCHANGED << mapObjectToId, mapIdToObject, idCount, protocols, endpoints, wrapLog, defaultId,
                  wrapKeep, tasks, heap, execLog, revokedIds >>

\* The get trap for a string other than 'then': proxy.property is a new proxy
\* of the longer path, kept by the user.
get(h, property) ==
  LET e == handles[h].ep IN
  /\ Usable(h, <<>>)
  /\ property # "then"
  /\ Len(handles) < MaxHandles
  /\ handles' = createLocalProxy(handles, e, handles[h].path \o <<property>>, TRUE)
  /\ UNCHANGED << mapObjectToId, mapIdToObject, idCount, protocols, endpoints, wrapLog, defaultId,
                  requests, wrapKeep, chan, tasks, heap, promises, reqLog, execLog,
                  revokedIds >>

\* An await that asks the peer whatever the length of the path is.
awaitProxyAlways(h) ==
  LET e == handles[h].ep IN
  /\ Usable(h, <<>>)
  /\ sendRequest(e, [h |-> h, direct |-> FALSE], [path |-> handles[h].path])
  /\ UNCHANGED << mapObjectToId, mapIdToObject, idCount, protocols, endpoints, wrapLog, defaultId,
                  wrapKeep, handles, tasks, heap, execLog, revokedIds >>

\* await proxy: the get trap for 'then'.  On a path of length 1 it returns an
\* object that is no function, so the proxy is no thenable and the await
\* delivers the proxy itself (local records it); on a longer path it posts the
\* get request and returns the then of its promise.
awaitProxy(h) ==
  IF Len(handles[h].path) = 1
    THEN /\ Usable(h, <<>>)
         /\ "then" \notin handles[h].local
         /\ handles' = [handles EXCEPT ![h].local = @ \cup {"then"}]
         /\ UNCHANGED << mapObjectToId, mapIdToObject, idCount, protocols, endpoints, wrapLog,
                         defaultId, requests, wrapKeep, chan, tasks, heap, promises, reqLog,
                         execLog, revokedIds >>
    ELSE then(h, <<>>)

\* The symbols a user can name: the well-known ones (release is private to the module).
Symbols == {"Symbol.iterator", "Symbol.toPrimitive"}

\* A set trap without the test for symbols: it serializes the value and files
\* the request; the path with the symbol cannot be cloned, so nothing is posted.
setSymbolPending(h, property) ==
  LET e == handles[h].ep
      n == Len(reqLog) + 1
  IN  /\ Usable(h, <<>>)
      /\ property \in Symbols
      /\ "set" \notin handles[h].local
      /\ handles' = [handles EXCEPT ![h].local = @ \cup {"set"}]
      /\ requests' = [requests EXCEPT ![e] = Put(@, n, n)]
      /\ promises' = [promises EXCEPT ![n] = [s |-> "rejected", v |-> Err("DataCloneError"),
                                               calls |-> 1]]
      /\ reqLog' = Append(reqLog, [h |-> h, direct |-> TRUE])
      /\ UNCHANGED << mapObjectToId, mapIdToObject, idCount, protocols, endpoints, wrapLog,
                      defaultId, wrapKeep, chan, tasks, heap, execLog, revokedIds >>

\* The set trap for a symbol: proxy[symbol] = value returns false before
\* anything is serialized or sent (local records the write).
setSymbol(h, property) ==
  /\ Usable(h, <<>>)
  /\ property \in Symbols
  /\ "set" \notin handles[h].local
  /\ handles' = [handles EXCEPT ![h].local = @ \cup {"set"}]
  /\ UNCHANGED << mapObjectToId, mapIdToObject, idCount, protocols, endpoints, wrapLog,
                  defaultId, requests, wrapKeep, chan, tasks, heap, promises, reqLog,
                  execLog, revokedIds >>

\* A release that posts the release and leaves the proxy usable.
releaseKeep(h) ==
  LET e == handles[h].ep IN
  /\ Usable(h, <<>>)
  /\ Len(handles[h].path) = 1
  /\ sendRequest(e, [h |-> h, direct |-> TRUE], [path |-> handles[h].path, release |-> TRUE])
  /\ UNCHANGED << mapObjectToId, mapIdToObject, idCount, protocols, endpoints, wrapLog, defaultId,
                  wrapKeep, handles, tasks, heap, execLog, revokedIds >>

\* Proximate.release(proxy): proxy[release]() revokes the proxy and posts a release.
release(h) ==
  LET e == handles[h].ep IN
  /\ Usable(h, <<>>)
  /\ Len(handles[h].path) = 1
  /\ handles' = [handles EXCEPT ![h].revoked = TRUE]
  /\ sendRequest(e, [h |-> h, direct |-> TRUE], [path |-> handles[h].path, release |-> TRUE])
  /\ UNCHANGED << mapObjectToId, mapIdToObject, idCount, protocols, endpoints, wrapLog, defaultId,
                  wrapKeep, tasks, heap, execLog, revokedIds >>

\* Proximate.revokeProxies(receiver).
revokeProxies(o) ==
  LET p == o[1]
      R == clearReceiverRefs(Reg(p), ObjRef(o))
  IN  /\ ObjRef(o) \in DOMAIN mapObjectToId[p]
      /\ revokedIds' = revokedIds \cup {mapObjectToId[p][ObjRef(o)]}
      /\ SetReg(p, R)
      /\ UNCHANGED << protocols, endpoints, wrapLog, defaultId, requests, wrapKeep, chan, handles,
                      tasks, heap, promises, reqLog, execLog >>

----------------------------------------------------------------------------
\* wrap draft: the dispatcher (handleMessage).

isRequest(message) == "id" \in DOMAIN message /\ "path" \in DOMAIN message

\* A try block that clears the property before it deserializes the value.
executeWriteFirst(e, message, R, H, hp) ==
  LET P == protocols[Proc(e)]
      head == Head(message.path)
      proxyId == IF head # "" THEN head ELSE defaultId[e]
      thrown(x, H1) == [k |-> "error", v |-> x, R |-> R, H |-> H1, heap |-> hp]
  IN
  IF proxyId \notin DOMAIN R.i2o THEN thrown(Err("invalid proxy"), H)
  ELSE
    LET w == Walk(hp, Undefined, R.i2o[proxyId].receiver, Tail(message.path)) IN
    IF ~w.ok THEN thrown(Err("TypeError"), H)
    ELSE IF "args" \in DOMAIN message THEN
      LET d == deserializeArgs(P, e, H, message.args, FALSE) IN
      IF ~d.ok THEN thrown(d.v, d.H)
      ELSE LET a == Apply(w.receiver, d.vals) IN
           [k |-> a.k, v |-> a.v, R |-> R, H |-> Retain(H, d.H, Keeps(w.receiver)), heap |-> hp]
    ELSE IF "release" \in DOMAIN message THEN
      [k |-> "result", v |-> Undefined, R |-> decReceiverRef(R, w.receiver), H |-> H, heap |-> hp]
    ELSE IF "value" \in DOMAIN message THEN
      LET d == deserialize(P, e, H, message.value, TRUE)
          tail == message.path[Len(message.path)]
      IN  IF ~d.ok
            THEN IF w.parent.t # "obj" THEN thrown(d.v, d.H)
                 ELSE [thrown(d.v, d.H) EXCEPT
                         !.heap = [hp EXCEPT ![w.parent.o][tail] = Undefined]]
          ELSE IF w.parent.t # "obj" THEN thrown(Err("TypeError"), d.H)
          ELSE [k |-> "result", v |-> Undefined, R |-> R, H |-> d.H,
                heap |-> [hp EXCEPT ![w.parent.o][tail] = d.v]]
    ELSE [k |-> "result", v |-> w.receiver, R |-> R, H |-> H, heap |-> hp]

\* The try block of handleMessage up to the result: lookup, path walk, then the
\* operation the message asks for.  k is "result", "error" (a throw) or "pending"
\* (the function returned a promise that is not settled yet).
execute(e, message, R, H, hp) ==
  LET P == protocols[Proc(e)]
      head == Head(message.path)
      proxyId == IF head # "" THEN head ELSE defaultId[e]
      thrown(x, H1) == [k |-> "error", v |-> x, R |-> R, H |-> H1, heap |-> hp]
  IN
  IF proxyId \notin DOMAIN R.i2o THEN thrown(Err("invalid proxy"), H)
  ELSE
    LET w == Walk(hp, Undefined, R.i2o[proxyId].receiver, Tail(message.path)) IN
    IF ~w.ok THEN thrown(Err("TypeError"), H)
    ELSE IF "args" \in DOMAIN message THEN
      LET d == deserializeArgs(P, e, H, message.args, FALSE) IN
      IF ~d.ok THEN thrown(d.v, d.H)
      ELSE LET a == Apply(w.receiver, d.vals) IN
           [k |-> a.k, v |-> a.v, R |-> R, H |-> Retain(H, d.H, Keeps(w.receiver)), heap |-> hp]
    ELSE IF "release" \in DOMAIN message THEN
      [k |-> "result", v |-> Undefined, R |-> decReceiverRef(R, w.receiver), H |-> H, heap |-> hp]
    ELSE IF "value" \in DOMAIN message THEN
      LET d == deserialize(P, e, H, message.value, TRUE)
          tail == message.path[Len(message.path)]
      IN  IF ~d.ok THEN thrown(d.v, d.H)
          ELSE IF w.parent.t # "obj" THEN thrown(Err("TypeError"), d.H)
          ELSE [k |-> "result", v |-> Undefined, R |-> R, H |-> d.H,
                heap |-> [hp EXCEPT ![w.parent.o][tail] = d.v]]
    ELSE [k |-> "result", v |-> w.receiver, R |-> R, H |-> H, heap |-> hp]

\* A dispatcher that takes a result for one only if it is truthy.
respondTruthy(id, k, v, P, R) ==
  LET s == serialize(P, R, v) IN
  [message |-> IF k = "result" /\ Truthy(v) THEN [id |-> id, result |-> s.wire]
               ELSE [id |-> id, error |-> s.wire],
   R |-> s.R]

\* A dispatcher that fills in both keys of the response.
respondBoth(id, k, v, P, R) ==
  LET s == serialize(P, R, v) IN
  [message |-> [id |-> id, result |-> s.wire, error |-> s.wire], R |-> s.R]

\* [response.result, transferables] = this.serialize(result), or the same for the
\* error caught; the response carries the id of the request.
respond(id, k, v, P, R) ==
  LET s == serialize(P, R, v) IN
  [message |-> IF k = "result" THEN [id |-> id, result |-> s.wire]
               ELSE [id |-> id, error |-> s.wire],
   R |-> s.R]

\* A lookup that ignores the id and takes the oldest pending request.
requestsGetOldest(reqs, id) == reqs[CHOOSE k \in DOMAIN reqs : \A j \in DOMAIN reqs : k <= j]

\* this.requests.get(message.id)
requestsGet(reqs, id) == reqs[id]

\* The request branch: run the request, then post the response, or suspend.
handleRequest(e, message) ==
  LET p == Proc(e)
      head == Head(message.path)
      proxyId == IF head # "" THEN head ELSE defaultId[e]
      x == execute(e, message, Reg(p), handles, heap)
      r == respond(message.id, x.k, x.v, protocols[p], x.R)
      done == x.k # "pending"
  IN  /\ handles' = x.H
      /\ heap' = x.heap
      /\ SetReg(p, IF done THEN r.R ELSE x.R)
      /\ chan' = IF done THEN postMessage([chan EXCEPT ![e] = Tail(@)], e, r.message)
                 ELSE [chan EXCEPT ![e] = Tail(@)]
      /\ tasks' = IF done THEN tasks ELSE [tasks EXCEPT ![e] = @ \cup {message.id}]
      /\ execLog' = [execLog EXCEPT ![message.id] =
                       [delivered |-> @.delivered + 1,
                        posted |-> @.posted + (IF done THEN 1 ELSE 0),
                        k |-> x.k, v |-> x.v,
                        stale |-> proxyId \in revokedIds,
                        message |-> message]]
      /\ UNCHANGED << requests, promises >>

\* The response branch: settle the pending request the id names.  The value
\* reaches the user only if the promise was still pending.
handleResponse(e, message) ==
  LET request == requestsGet(requests[e], message.id)
      isResult == "result" \in DOMAIN message
      d == deserialize(protocols[Proc(e)], e, handles,
                       IF isResult THEN message.result ELSE message.error,
                       promises[request].s = "pending")
  IN  /\ chan' = [chan EXCEPT ![e] = Tail(@)]
      /\ handles' = d.H
      /\ promises' = IF d.ok
                       THEN [promises EXCEPT ![request] =
                               settle(@, IF isResult THEN "fulfilled" ELSE "rejected", d.v)]
                       ELSE promises
      /\ UNCHANGED << mapObjectToId, mapIdToObject, idCount, requests, tasks, heap, execLog >>

\* A listener that answers a message it cannot classify with an error.
handleMessageAnswers(e) ==
  /\ e \in endpoints
  /\ chan[e] # <<>>
  /\ LET message == Head(chan[e]) IN
       IF isRequest(message) THEN handleRequest(e, message)
       ELSE IF "id" \in DOMAIN message /\ message.id \in DOMAIN requests[e]
         THEN handleResponse(e, message)
         ELSE /\ chan' = postMessage([chan EXCEPT ![e] = Tail(@)], e, [error |-> Undefined])
              /\ UNCHANGED << mapObjectToId, mapIdToObject, idCount, requests, handles,
                              tasks, heap, promises, execLog >>
  /\ UNCHANGED << protocols, endpoints, wrapLog, defaultId, wrapKeep, reqLog, revokedIds >>

\* A listener that takes no message while a handler of its endpoint is suspended.
handleMessageSerial(e) ==
  /\ e \in endpoints
  /\ chan[e] # <<>>
  /\ tasks[e] = {}
  /\ LET message == Head(chan[e]) IN
       IF isRequest(message) THEN handleRequest(e, message)
       ELSE IF "id" \in DOMAIN message /\ message.id \in DOMAIN requests[e]
         THEN handleResponse(e, message)
         ELSE /\ chan' = [chan EXCEPT ![e] = Tail(@)]
              /\ UNCHANGED << mapObjectToId, mapIdToObject, idCount, requests, handles,
                              tasks, heap, promises, execLog >>
  /\ UNCHANGED << protocols, endpoints, wrapLog, defaultId, wrapKeep, reqLog, revokedIds >>

\* The listener of a wrapped endpoint takes the next message of its queue.
handleMessage(e) ==
  /\ e \in endpoints
  /\ chan[e] # <<>>
  /\ LET message == Head(chan[e]) IN
       IF isRequest(message) THEN handleRequest(e, message)
       ELSE IF "id" \in DOMAIN message /\ message.id \in DOMAIN requests[e]
         THEN handleResponse(e, message)
         ELSE /\ chan' = [chan EXCEPT ![e] = Tail(@)]
              /\ UNCHANGED << mapObjectToId, mapIdToObject, idCount, requests, handles,
                              tasks, heap, promises, execLog >>
  /\ UNCHANGED << protocols, endpoints, wrapLog, defaultId, wrapKeep, reqLog, revokedIds >>

\* The promise a suspended handler awaits settles; the handler serializes the
\* outcome and posts the response.
resume(e, id, k, v) ==
  LET p == Proc(e)
      r == respond(id, k, v, protocols[p], Reg(p))
  IN  /\ id \in tasks[e]
      /\ tasks' = [tasks EXCEPT ![e] = @ \ {id}]
      /\ SetReg(p, r.R)
      /\ chan' = postMessage(chan, e, r.message)
      /\ execLog' = [execLog EXCEPT ![id] = [@ EXCEPT !.posted = @ + 1, !.k = k, !.v = v]]
      /\ UNCHANGED << protocols, endpoints, wrapLog, defaultId, requests, wrapKeep, handles, heap,
                      promises, reqLog, revokedIds >>

\* The request at the head of the queue of e calls the member call of the
\* receiver, f => f(), with a value that arrives as a proxy.
IsCallRequest(e) ==
  /\ chan[e] # <<>>
  /\ isRequest(Head(chan[e]))
  /\ "args" \in DOMAIN Head(chan[e])
  /\ LET message == Head(chan[e])
         head == Head(message.path)
         proxyId == IF head # "" THEN head ELSE defaultId[e]
     IN  /\ proxyId \in DOMAIN mapIdToObject[Proc(e)]
         /\ LET w == Walk(heap, Undefined, mapIdToObject[Proc(e)][proxyId].receiver,
                          Tail(message.path))
                d == deserializeArgs(protocols[Proc(e)], e, handles, message.args, FALSE)
            IN  /\ w.ok /\ w.receiver = ObjRef(<<Proc(e), "call">>)
                /\ d.ok /\ Len(d.vals) = 1 /\ d.vals[1].t = "handle"

\* The listener takes a request for call: receiver.apply runs the function up
\* to its return, that is, f() goes through the apply trap of the proxy that
\* deserialize made, which posts a request of its own (sendRequest), and the
\* handler is suspended on the promise of that request.
handleCall(e) ==
  /\ e \in endpoints
  /\ IsCallRequest(e)
  /\ LET message == Head(chan[e])
         p == Proc(e)
         head == Head(message.path)
         proxyId == IF head # "" THEN head ELSE defaultId[e]
         x == execute(e, message, Reg(p), handles, heap)
         f == Len(x.H)
         n == Len(reqLog) + 1
     IN  /\ handles' = x.H
         /\ heap' = x.heap
         /\ SetReg(p, x.R)
         /\ tasks' = [tasks EXCEPT ![e] = @ \cup {message.id}]
         /\ execLog' = [execLog EXCEPT ![message.id] =
                          [delivered |-> @.delivered + 1, posted |-> @.posted,
                           k |-> x.k, v |-> x.v,
                           stale |-> proxyId \in revokedIds,
                           message |-> message]]
         /\ requests' = [requests EXCEPT ![e] = Put(@, n, n)]
         /\ promises' = [promises EXCEPT ![n] = [s |-> "pending", v |-> Undefined, calls |-> 0]]
         /\ reqLog' = Append(reqLog, [h |-> f, direct |-> TRUE, serving |-> message.id])
         /\ chan' = postMessage([chan EXCEPT ![e] = Tail(@)], e,
                                [id |-> n, path |-> x.H[f].path, args |-> <<>>])
  /\ UNCHANGED << protocols, endpoints, wrapLog, defaultId, wrapKeep, revokedIds >>

\* The request a suspended handler of call awaits is settled: the handler goes
\* on with its result or its error and posts the response.
resumeCall(e, id) ==
  \E n \in 1..Len(reqLog) :
    /\ "serving" \in DOMAIN reqLog[n]
    /\ reqLog[n].serving = id
    /\ handles[reqLog[n].h].ep = e
    /\ promises[n].s # "pending"
    /\ resume(e, id, IF promises[n].s = "fulfilled" THEN "result" ELSE "error", promises[n].v)

----------------------------------------------------------------------------
\* The inputs of the wrap draft.

Calls(p) == { [m |-> <<>>, a |-> <<>>],
              [m |-> <<"store">>, a |-> <<ObjRef(<<p, "api">>)>>],
              [m |-> <<"slow">>, a |-> <<>>],
              [m |-> <<"bad">>, a |-> <<>>] }
GetPaths == {<<"value">>, <<"nope", "x">>}
HandleIds == 1..Len(handles)
\* The handles of the user of process 2, whose peer has the receiver.
UserHandles == {h \in HandleIds : Proc(handles[h].ep) = 2}

\* The model stops posting requests after MaxReq of them.
Budget == Len(reqLog) < MaxReq

Next ==
  \/ \E p \in Procs : protocolsSet(p)
  \/ \E h \in HandleIds : \E c \in Calls(Proc(handles[h].ep)) : Budget /\ apply(h, c.m, c.a)
  \/ \E h \in HandleIds : \E m \in GetPaths : Budget /\ then(h, m)
  \/ \E h \in HandleIds : Budget /\ set(h, <<>>, "value", Prim(21))
  \/ \E h \in HandleIds : Budget /\ release(h)
  \/ \E h \in HandleIds : Throws(h)
  \/ \E o \in Objects : revokeProxies(o)
  \/ \E e \in Endpoints : handleMessage(e)
  \/ \E e \in Endpoints : \E id \in tasks[e] :
        \/ resume(e, id, "result", Prim(7))
        \/ resume(e, id, "error", Err("late"))

Spec == Init /\ [][Next]_vars

\* wrap draft, passing by proxy: the function protocol is registered, functions
\* and the proxies a process holds are passed as the argument of a call.  A
\* proxy is a function to FunctionProtocol.canHandle (its target is () => {}).
PassCalls(p) ==
  { [m |-> <<>>, a |-> <<>>],
    [m |-> <<"store">>, a |-> <<ObjRef(<<p, "api">>)>>] }
  \cup { [m |-> <<>>, a |-> <<HandleRef(g)>>] :
           g \in {x \in HandleIds : /\ Proc(handles[x].ep) = p
                                    /\ handles[x].held /\ ~handles[x].revoked
                                    /\ Len(handles[x].path) = 1} }

NextPass ==
  \/ \E p \in Procs : protocolsSet(p)
  \/ \E h \in HandleIds : \E c \in PassCalls(Proc(handles[h].ep)) : Budget /\ apply(h, c.m, c.a)
  \/ \E e \in Endpoints : handleMessage(e)

SpecPass == Init /\ [][NextPass]_vars

\* wrap draft, member access: members of the receiver are written and read,
\* through the primary proxies and through paths of one to three names.
SetProps == {"value", "x"}
SetValues == {Prim(21), Prim(0)}
AccessPaths == {<<"value">>, <<"x">>, <<"foo", "bar", "value">>, <<"nope", "x">>}

NextAccess ==
  \/ \E h \in HandleIds : \E k \in SetProps : \E v \in SetValues : Budget /\ set(h, <<>>, k, v)
  \/ \E h \in HandleIds : \E m \in AccessPaths : Budget /\ then(h, m)
  \/ \E e \in Endpoints : handleMessage(e)

SpecAccess == Init /\ [][NextAccess]_vars

\* wrap draft, writes that fail: through the primary proxy of either process
\* (process 2 has no receiver), to a member of a member that does not exist,
\* to a member of a number, and of a function that the writer passes by proxy
\* where the owner of the receiver may not know the protocol.
WriteTargets == { <<<<>>, "value">>, <<<<"nope">>, "x">>, <<<<"value">>, "x">>, <<<<"foo">>, "x">> }
WriteValues(p) == { Prim(21), ObjRef(<<p, "store">>) }

NextWrite ==
  \/ \E p \in Procs : protocolsSet(p)
  \/ \E h \in HandleIds : \E w \in WriteTargets : \E v \in WriteValues(Proc(handles[h].ep)) :
        Budget /\ set(h, w[1], w[2], v)
  \/ \E e \in Endpoints : handleMessage(e)

SpecWrite == Init /\ [][NextWrite]_vars

\* wrap draft, passing values: the receiver member echo (value => value) is
\* called with one value, as the tests of passing primitives do.
Primitives == {Undefined, Null, Bool(FALSE), Bool(TRUE), Prim(0), Prim(123), Str(""),
               Str("foobar")}
\* Compounds no protocol accepts, some with keys named type, data and error.
Compounds ==
  { Compound([foo |-> Str("bar")]),
    Compound([foo |-> Compound([bar |-> Str("baz")])]),
    Compound([type |-> Str("text"), data |-> Prim(1)]),
    Compound([data |-> Prim(0)]),
    Compound([error |-> Str("oops"), type |-> Prim(0)]) }
Values == Primitives \cup Compounds

NextValues ==
  \/ \E p \in Procs : protocolsSet(p)
  \/ \E h \in HandleIds : \E v \in Values : Budget /\ apply(h, <<"echo">>, <<v>>)
  \/ \E e \in Endpoints : handleMessage(e)

SpecValues == Init /\ [][NextValues]_vars

\* wrap draft, protocols that overlap: each process registers the function
\* protocol and the object protocol in either order, or not at all, and passes
\* a primitive, a compound, an Error or a function as the argument of a call.
CodecValues(p) ==
  { Prim(123), Compound([foo |-> Str("bar")]), Err("oops"), ObjRef(<<p, "api">>) }

NextCodec ==
  \/ \E p \in Procs : protocolsSet(p)
  \/ \E p \in Procs : protocolsSetObject(p)
  \/ \E h \in HandleIds : \E v \in CodecValues(Proc(handles[h].ep)) :
        Budget /\ apply(h, <<"store">>, <<v>>)
  \/ \E e \in Endpoints : handleMessage(e)

SpecCodec == Init /\ [][NextCodec]_vars

\* wrap draft, protocols that differ between the peers: each process may or may
\* not register the function protocol; a function is passed as an argument, and
\* a member that is a function is read where the owner can pass it by proxy.
HasProtocol(p, key) == \E i \in 1..Len(protocols[p]) : protocols[p][i] = key

NextProtocols ==
  \/ \E p \in Procs : protocolsSet(p)
  \/ \E h \in HandleIds :
        Budget /\ apply(h, <<"store">>, <<ObjRef(<<Proc(handles[h].ep), "api">>)>>)
  \/ \E h \in HandleIds :
        /\ Budget
        /\ HasProtocol(Proc(Peer(handles[h].ep)), "function")
        /\ then(h, <<"store">>)
  \/ \E e \in Endpoints : handleMessage(e)

SpecProtocols == Init /\ [][NextProtocols]_vars

\* wrap draft, a function that returns a pending promise: the processes call
\* slow and the primary receiver of the peer in any order.  The event loop runs the listener of
\* every queued message (weak fairness of handleMessage); when the promise of
\* slow settles is up to the function, so resume has no fairness.
NextSlow ==
  \/ \E h \in HandleIds : Budget /\ apply(h, <<"slow">>, <<>>)
  \/ \E h \in HandleIds : Budget /\ apply(h, <<>>, <<>>)
  \/ \E e \in Endpoints : handleMessage(e)
  \/ \E e \in Endpoints : \E id \in tasks[e] :
        \/ resume(e, id, "result", Prim(7))
        \/ resume(e, id, "error", Err("late"))

SpecSlow ==
  /\ Init /\ [][NextSlow]_vars
  /\ \A e \in Endpoints : WF_vars(handleMessage(e))

\* wrap draft, Proximate.wrap on a running program.  Process 1 has wrapped its
\* port with the receiver api; process 2 wraps its port later, and until then
\* the port is not started and keeps what is posted to it.  Either process
\* may call wrap on its port again, with or without a receiver.
MaxWraps == 2

InitWrap ==
    LET S == wrap(Unwrapped, <<1, 1>>, ObjRef(<<1, "api">>)) IN
    /\ mapObjectToId = S.o2i
    /\ mapIdToObject = S.i2o
    /\ idCount = S.ids
    /\ defaultId = S.defaultId
    /\ handles = S.handles
    /\ protocols = [p \in Procs |-> <<"_error">>]
    /\ endpoints = {<<1, 1>>}
    /\ wrapLog = <<>>
    /\ requests = [e \in Endpoints |-> EmptyMap]
    /\ proxies = [p \in Procs |-> EmptyMap]
    /\ marker = EmptyMap
    /\ relay = {}
    /\ primary = EmptyMap
    /\ hasTarget = {}
    /\ portClosed = {}
    /\ chan = [e \in Endpoints |-> <<>>]
    /\ tasks = [e \in Endpoints |-> {}]
    /\ heap = InitHeap
    /\ promises = [n \in Nonces |-> NoPromise]
    /\ reqLog = <<>>
    /\ execLog = [n \in Nonces |-> NoExec]
    /\ revokedIds = {}

\* A Proximate.wrap without the test of Proximate.endpoints.
wrapCallUnchecked(e, receiver) ==
  LET S == wrap([o2i |-> mapObjectToId, i2o |-> mapIdToObject, ids |-> idCount,
                 defaultId |-> defaultId, handles |-> handles], e, receiver)
  IN  /\ Len(wrapLog) < MaxWraps
      /\ endpoints' = endpoints \cup {e}
      /\ mapObjectToId' = S.o2i
      /\ mapIdToObject' = S.i2o
      /\ idCount' = S.ids
      /\ defaultId' = S.defaultId
      /\ handles' = S.handles
      /\ wrapLog' = Append(wrapLog, [ep |-> e, threw |-> FALSE, at |-> Len(reqLog)])
      /\ UNCHANGED << protocols, requests, wrapKeep, chan, tasks, heap, promises, reqLog,
                      execLog, revokedIds >>

\* Proximate.wrap(endpoint, {receiver}) as a call of the running program:
\* it throws 'endpoint already wrapped' before it does anything else.
wrapCall(e, receiver) ==
  LET S == wrap([o2i |-> mapObjectToId, i2o |-> mapIdToObject, ids |-> idCount,
                 defaultId |-> defaultId, handles |-> handles], e, receiver)
  IN  /\ Len(wrapLog) < MaxWraps
      /\ IF e \in endpoints
           THEN /\ wrapLog' = Append(wrapLog, [ep |-> e, threw |-> TRUE, at |-> Len(reqLog)])
                /\ UNCHANGED << endpoints, mapObjectToId, mapIdToObject, idCount, defaultId,
                                handles >>
           ELSE /\ endpoints' = endpoints \cup {e}
                /\ mapObjectToId' = S.o2i
                /\ mapIdToObject' = S.i2o
                /\ idCount' = S.ids
                /\ defaultId' = S.defaultId
                /\ handles' = S.handles
                /\ wrapLog' = Append(wrapLog, [ep |-> e, threw |-> FALSE, at |-> Len(reqLog)])
      /\ UNCHANGED << protocols, requests, wrapKeep, chan, tasks, heap, promises, reqLog,
                      execLog, revokedIds >>

NextWrap ==
  \/ \E e \in Endpoints : \E receiver \in {Undefined, ObjRef(<<Proc(e), "api">>)} :
        wrapCall(e, receiver)
  \/ \E h \in HandleIds : Budget /\ apply(h, <<>>, <<>>)
  \/ \E e \in Endpoints : handleMessage(e)

SpecWrap == InitWrap /\ [][NextWrap]_vars

\* wrap draft, both peers with a receiver (the 'inside out' test) and the
\* function protocol: each process calls the receiver of the other, and calls
\* its member call with a function of its own, which the peer calls back while
\* it serves the request.  The event loop runs the listener of every queued
\* message and the continuation of every settled promise (weak fairness).
InitBoth ==
    LET S == wrap(wrap(Unwrapped, <<1, 1>>, ObjRef(<<1, "api">>)),
                  <<1, 2>>, ObjRef(<<2, "api">>)) IN
    /\ mapObjectToId = S.o2i
    /\ mapIdToObject = S.i2o
    /\ idCount = S.ids
    /\ defaultId = S.defaultId
    /\ handles = S.handles
    /\ protocols = [p \in Procs |-> <<"_error", "function">>]
    /\ endpoints = Endpoints
    /\ wrapLog = <<>>
    /\ requests = [e \in Endpoints |-> EmptyMap]
    /\ proxies = [p \in Procs |-> EmptyMap]
    /\ marker = EmptyMap
    /\ relay = {}
    /\ primary = EmptyMap
    /\ hasTarget = {}
    /\ portClosed = {}
    /\ chan = [e \in Endpoints |-> <<>>]
    /\ tasks = [e \in Endpoints |-> {}]
    /\ heap = InitHeap
    /\ promises = [n \in Nonces |-> NoPromise]
    /\ reqLog = <<>>
    /\ execLog = [n \in Nonces |-> NoExec]
    /\ revokedIds = {}

\* The users stop calling after MaxBoth calls; a call back is not counted.
BudgetBoth ==
  Cardinality({n \in 1..Len(reqLog) : "serving" \notin DOMAIN reqLog[n]}) < MaxBoth

NextBoth ==
  \/ \E h \in {1, 2} : BudgetBoth /\ apply(h, <<>>, <<>>)
  \/ \E h \in {1, 2} :
        BudgetBoth /\ apply(h, <<"call">>, <<ObjRef(<<Proc(handles[h].ep), "api">>)>>)
  \/ \E e \in Endpoints : ~IsCallRequest(e) /\ handleMessage(e)
  \/ \E e \in Endpoints : handleCall(e)
  \/ \E e \in Endpoints : \E id \in tasks[e] : resumeCall(e, id)

SpecBoth ==
  /\ InitBoth /\ [][NextBoth]_vars
  /\ \A e \in Endpoints : WF_vars(~IsCallRequest(e) /\ handleMessage(e))
  /\ \A e \in Endpoints : WF_vars(handleCall(e))
  /\ \A e \in Endpoints : WF_vars(\E id \in tasks[e] : resumeCall(e, id))

\* wrap draft, messages of other senders: a message without an id, with a
\* path or with a result, and a message that carries the id of a pending
\* request of the endpoint together with a path and a result.
\* At most this many messages wait at an endpoint when another sender posts.
MaxForeign == 2

ForeignMessages(e) ==
  { [path |-> <<"">>, args |-> <<>>], [result |-> Prim(1)] }
    \cup { [id |-> n, path |-> <<"">>, args |-> <<>>, result |-> Prim(1)] :
             n \in {x \in DOMAIN requests[e] : promises[x].s = "pending"} }

deliverForeign(e, message) ==
  /\ e \in endpoints
  /\ Len(chan[e]) < MaxForeign
  /\ \A i \in 1..Len(chan[e]) : chan[e][i] # message
  /\ "id" \in DOMAIN message => execLog[message.id].delivered = 0
  /\ chan' = [chan EXCEPT ![e] = Append(@, message)]
  /\ UNCHANGED << mapObjectToId, mapIdToObject, idCount, protocols, endpoints, wrapLog, defaultId,
                  requests, wrapKeep, handles, tasks, heap, promises, reqLog, execLog,
                  revokedIds >>

NextForeign ==
  \/ \E h \in HandleIds : Budget /\ apply(h, <<>>, <<>>)
  \/ \E e \in Endpoints : \E message \in ForeignMessages(e) : deliverForeign(e, message)
  \/ \E e \in Endpoints : handleMessage(e)

SpecForeign == Init /\ [][NextForeign]_vars

\* wrap draft, responses that answer no pending request.  The transport
\* delivers the response at the head of the queue of endpoint e, which was not
\* handled yet, a second time.
deliverAgain(e) ==
  /\ e \in endpoints
  /\ chan[e] # <<>>
  /\ ~isRequest(Head(chan[e]))
  /\ Cardinality({i \in 1..Len(chan[e]) : chan[e][i] = Head(chan[e])}) = 1
  /\ Head(chan[e]).id \in 1..Len(reqLog)
  /\ promises[Head(chan[e]).id].calls = 0
  /\ Len(handles) < MaxHandles
  /\ chan' = [chan EXCEPT ![e] = Append(@, Head(@))]
  /\ UNCHANGED << mapObjectToId, mapIdToObject, idCount, protocols, endpoints, wrapLog, defaultId,
                  requests, wrapKeep, handles, tasks, heap, promises, reqLog, execLog,
                  revokedIds >>

\* A response arrives at endpoint e with an id (0) that no request carries.
deliverStray(e) ==
  LET stray == [id |-> 0, result |-> Undefined] IN
  /\ e \in endpoints
  /\ \A i \in 1..Len(chan[e]) : chan[e][i] # stray
  /\ chan' = [chan EXCEPT ![e] = Append(@, stray)]
  /\ UNCHANGED << mapObjectToId, mapIdToObject, idCount, protocols, endpoints, wrapLog, defaultId,
                  requests, wrapKeep, handles, tasks, heap, promises, reqLog, execLog,
                  revokedIds >>

\* Process 2 awaits a member of the receiver of process 1: its value, or its
\* function store, which is answered by proxy.
NextAgain ==
  \/ \E p \in Procs : protocolsSet(p)
  \/ \E h \in UserHandles :
        /\ Budget
        /\ then(h, <<"value">>)
  \/ \E h \in UserHandles :
        /\ Budget
        /\ HasProtocol(1, "function") /\ HasProtocol(2, "function")
        /\ then(h, <<"store">>)
  \/ \E e \in Endpoints : deliverAgain(e)
  \/ \E e \in Endpoints : deliverStray(e)
  \/ \E e \in Endpoints : handleMessage(e)

SpecAgain == Init /\ [][NextAgain]_vars

\* wrap draft, the traps of a proxy: the user reads properties, awaits proxies
\* of either length, writes a property and writes under a symbol.  The user
\* is process 2, whose peer has the receiver.
TrapProps == {"value", "foo"}

NextTraps ==
  \/ \E h \in UserHandles : \E property \in TrapProps : get(h, property)
  \/ \E h \in UserHandles : Budget /\ awaitProxy(h)
  \/ \E h \in UserHandles : Budget /\ Len(handles[h].path) = 1 /\ set(h, <<>>, "value", Prim(21))
  \/ \E h \in UserHandles : \E property \in Symbols : setSymbol(h, property)
  \/ \E e \in Endpoints : handleMessage(e)

SpecTraps == Init /\ [][NextTraps]_vars

\* wrap draft, two connections between the processes.  Process 1 wraps its
\* port of connection 1 with receiver api and its port of connection 2 with
\* receiver store (a function of its own that keeps its argument); process 2
\* wraps both of its ports without a receiver.  The function protocol is
\* registered at both processes.
UnwrappedTwo ==
  [o2i |-> [p \in Procs |-> EmptyMap], i2o |-> [p \in Procs |-> EmptyMap], ids |-> 0,
   defaultId |-> [e \in EndpointsTwo |-> NoId], handles |-> <<>>]

\* The receiver each endpoint is wrapped with.
ReceiverTwo(e) ==
  IF e = <<1, 1>> THEN ObjRef(<<1, "api">>)
  ELSE IF e = <<2, 1>> THEN ObjRef(<<1, "store">>)
  ELSE Undefined

InitTwo ==
    LET S == wrap(wrap(wrap(wrap(UnwrappedTwo,
                                 <<1, 1>>, ReceiverTwo(<<1, 1>>)),
                            <<1, 2>>, ReceiverTwo(<<1, 2>>)),
                       <<2, 1>>, ReceiverTwo(<<2, 1>>)),
                  <<2, 2>>, ReceiverTwo(<<2, 2>>))
    IN
    /\ mapObjectToId = S.o2i
    /\ mapIdToObject = S.i2o
    /\ idCount = S.ids
    /\ defaultId = S.defaultId
    /\ handles = S.handles
    /\ protocols = [p \in Procs |-> <<"_error", "function">>]
    /\ endpoints = EndpointsTwo
    /\ wrapLog = <<>>
    /\ requests = [e \in EndpointsTwo |-> EmptyMap]
    /\ proxies = [p \in Procs |-> EmptyMap]
    /\ marker = EmptyMap
    /\ relay = {}
    /\ primary = EmptyMap
    /\ hasTarget = {}
    /\ portClosed = {}
    /\ chan = [e \in EndpointsTwo |-> <<>>]
    /\ tasks = [e \in EndpointsTwo |-> {}]
    /\ heap = InitHeap
    /\ promises = [n \in Nonces |-> NoPromise]
    /\ reqLog = <<>>
    /\ execLog = [n \in Nonces |-> NoExec]
    /\ revokedIds = {}

\* Process 2 calls the primary receivers and passes its function api to store
\* over either connection; process 1 releases the handles it was passed.
TwoCalls(h) ==
  IF handles[h].ep = <<1, 2>> /\ handles[h].path = <<"">>
    THEN { [m |-> <<>>, a |-> <<>>], [m |-> <<"store">>, a |-> <<ObjRef(<<2, "api">>)>>] }
  ELSE IF handles[h].ep = <<2, 2>> /\ handles[h].path = <<"">>
    THEN { [m |-> <<>>, a |-> <<>>], [m |-> <<>>, a |-> <<ObjRef(<<2, "api">>)>>] }
  ELSE {}

NextTwo ==
  \/ \E h \in HandleIds : \E c \in TwoCalls(h) :
        Len(reqLog) < MaxTwo /\ apply(h, c.m, c.a)
  \/ \E h \in HandleIds :
        /\ Len(reqLog) < MaxTwo
        /\ handles[h].path # <<"">>
        /\ release(h)
  \/ \E e \in EndpointsTwo : handleMessage(e)

SpecTwo == InitTwo /\ [][NextTwo]_vars

\* wrap draft, two connections, handles that share a receiver: process 2
\* passes its functions api and store to the store of process 1, api over
\* either connection; process 1 calls and releases the handles it was passed.
ShareCalls(h) ==
  IF handles[h].ep = <<1, 2>> /\ handles[h].path = <<"">>
    THEN { [m |-> <<"store">>, a |-> <<ObjRef(<<2, "api">>)>>],
           [m |-> <<"store">>, a |-> <<ObjRef(<<2, "store">>)>>] }
  ELSE IF handles[h].ep = <<2, 2>> /\ handles[h].path = <<"">>
    THEN { [m |-> <<>>, a |-> <<ObjRef(<<2, "api">>)>>] }
  ELSE IF Proc(handles[h].ep) = 1 /\ handles[h].path # <<"">>
    THEN { [m |-> <<>>, a |-> <<>>] }
  ELSE {}

NextShare ==
  \/ \E h \in HandleIds : \E c \in ShareCalls(h) :
        Len(reqLog) < MaxTwo /\ apply(h, c.m, c.a)
  \/ \E h \in HandleIds :
        /\ Len(reqLog) < MaxTwo
        /\ handles[h].path # <<"">>
        /\ release(h)
  \/ \E e \in EndpointsTwo : handleMessage(e)

SpecShare == InitTwo /\ [][NextShare]_vars

----------------------------------------------------------------------------
\* create draft: the proxies table.  X is a process's table id -> [target, count].

refProxy(X, id, target) ==
  LET proxyEntry == IF id \in DOMAIN X THEN X[id] ELSE [target |-> target, count |-> 0]
  IN  Put(X, id, [proxyEntry EXCEPT !.count = @ + 1])

derefProxy(X, id) ==
  IF id \in DOMAIN X
    THEN IF X[id].count - 1 # 0 THEN [X EXCEPT ![id].count = @ - 1] ELSE Remove(X, id)
    ELSE X

\* create draft: the codec.  M is the PROXY_MARKER of every object (NoId: none).
\* The model sends no proxy as a value, and passByProxy is left empty.
serializeC(M, X, data) ==
  IF IsObject(data)
    THEN IF data.t = "obj" /\ M[data.o] # NoId
           THEN [wire |-> [p |-> M[data.o]], X |-> refProxy(X, M[data.o], data)]
         ELSE IF data.t = "err"
           THEN [wire |-> [e |-> [message |-> data.msg, stack |-> data.stack]], X |-> X]
         ELSE [wire |-> [d |-> data], X |-> X]
    ELSE [wire |-> data, X |-> X]

RECURSIVE serializeArgsC(_, _, _)
serializeArgsC(M, X, args) ==
  IF args = <<>> THEN [wires |-> <<>>, X |-> X]
  ELSE LET s == serializeC(M, X, Head(args))
           rest == serializeArgsC(M, s.X, Tail(args))
       IN  [wires |-> <<s.wire>> \o rest.wires, X |-> rest.X]

\* What the port cannot clone: an object (all objects here are functions or
\* carry functions) sent as plain data.
CloneableC(wire) == ~ ("d" \in DOMAIN wire)

createProxy(H, e, path, held) ==
  Append(H, [ep |-> e, path |-> path, revoked |-> FALSE, held |-> held, threw |-> FALSE,
             local |-> {}])

deserializeC(e, H, wire, held) ==
  IF "p" \in DOMAIN wire
    THEN [v |-> HandleRef(Len(H) + 1), H |-> createProxy(H, e, <<wire.p>>, held)]
  ELSE IF "e" \in DOMAIN wire
    THEN [v |-> [t |-> "err", msg |-> wire.e.message, stack |-> wire.e.stack], H |-> H]
  ELSE IF "d" \in DOMAIN wire THEN [v |-> wire.d, H |-> H]
  ELSE [v |-> wire, H |-> H]

RECURSIVE deserializeArgsC(_, _, _, _)
deserializeArgsC(e, H, args, held) ==
  IF args = <<>> THEN [vals |-> <<>>, H |-> H]
  ELSE LET d == deserializeC(e, H, Head(args), held)
           rest == deserializeArgsC(e, d.H, Tail(args), held)
       IN  [vals |-> <<d.v>> \o rest.vals, H |-> rest.H]

\* Every object marked settable.
SettableAll == {<<1, "api">>, <<2, "api">>}

\* The objects marked with Proximate.settable(): the api of process 2.
Settable == {<<2, "api">>}

----------------------------------------------------------------------------
\* create draft: construction and the transport.

\* Proximate.create(messagePort, {target}) applied to S = [X, ids, defaultId,
\* handles, primary, relay, hasTarget]; target = Undefined stands for create without target.
create(S, e, target) ==
  LET p == Proc(e)
      defaultProxyId == nonce(S.ids)
  IN  [X |-> IF target = Undefined THEN S.X
             ELSE [S.X EXCEPT ![p] = refProxy(@, defaultProxyId, target)],
       ids |-> S.ids + 1,
       defaultId |-> [S.defaultId EXCEPT ![e] = defaultProxyId],
       handles |-> createProxy(S.handles, e, <<"">>, TRUE),
       primary |-> Put(S.primary, Len(S.handles) + 1,
                       [id |-> defaultProxyId, target |-> target # Undefined, closes |-> 0]),
       relay |-> S.relay \cup {e},
       hasTarget |-> IF target = Undefined THEN S.hasTarget ELSE S.hasTarget \cup {e}]

Uncreated ==
  [X |-> [p \in Procs |-> EmptyMap], ids |-> 0, defaultId |-> [e \in Endpoints |-> NoId],
   handles |-> <<>>, primary |-> EmptyMap, relay |-> {}, hasTarget |-> {}]

\* The state after Proximate.create(port1, {target: api}) in process 1 and
\* Proximate.create(port2) in process 2.
InitC ==
    LET S == create(create(Uncreated, <<1, 1>>, ObjRef(<<1, "api">>)), <<1, 2>>, Undefined) IN
    /\ proxies = S.X
    /\ idCount = S.ids
    /\ defaultId = S.defaultId
    /\ handles = S.handles
    /\ relay = S.relay
    /\ primary = S.primary
    /\ hasTarget = S.hasTarget
    /\ marker = [o \in Objects |-> NoId]
    /\ portClosed = {}
    /\ mapObjectToId = [p \in Procs |-> EmptyMap]
    /\ mapIdToObject = [p \in Procs |-> EmptyMap]
    /\ protocols = [p \in Procs |-> <<>>]
    /\ endpoints = {}
    /\ wrapLog = <<>>
    /\ requests = [e \in Endpoints |-> EmptyMap]
    /\ chan = [e \in Endpoints |-> <<>>]
    /\ tasks = [e \in Endpoints |-> {}]
    /\ heap = InitHeap
    /\ promises = [n \in Nonces |-> NoPromise]
    /\ reqLog = <<>>
    /\ execLog = [n \in Nonces |-> NoExec]
    /\ revokedIds = {}

\* messagePort.postMessage(message): a closed port sends nothing, and nothing
\* reaches a closed port.
postMessageC(ch, e, message) ==
  IF e \in portClosed \/ Peer(e) \in portClosed THEN ch
  ELSE [ch EXCEPT ![Peer(e)] = Append(@, message)]

\* sendRequest of the create draft; the requests table is global to the process,
\* which owns one connection here.
sendRequestC(e, via, request) ==
  LET n == Len(reqLog) + 1 IN
  /\ requests' = [requests EXCEPT ![e] = Put(@, n, n)]
  /\ promises' = [promises EXCEPT ![n] = [s |-> "pending", v |-> Undefined, calls |-> 0]]
  /\ reqLog' = Append(reqLog, via)
  /\ chan' = postMessageC(chan, e, [n |-> n] @@ request)

createKeep == << mapObjectToId, mapIdToObject, protocols, endpoints, wrapLog, primary >>


----------------------------------------------------------------------------
\* create draft: the operations of the public interface and of a proxy.

\* Proximate.enableProxy(obj) on an object that carries no marker yet.
enableProxy(o) ==
  /\ marker[o] = NoId
  /\ idCount < MaxIds
  /\ marker' = [marker EXCEPT ![o] = nonce(idCount)]
  /\ idCount' = idCount + 1
  /\ UNCHANGED << createKeep, defaultId, requests, proxies, relay, hasTarget, portClosed,
                  chan, handles, tasks, heap, promises, reqLog, execLog, revokedIds >>

\* A revokeProxies that forgets to replace the marker of the object.
revokeProxiesKeepMarker(o) ==
  /\ marker[o] # NoId
  /\ proxies' = [proxies EXCEPT ![o[1]] = Remove(@, marker[o])]
  /\ revokedIds' = revokedIds \cup {marker[o]}
  /\ UNCHANGED << createKeep, defaultId, requests, marker, relay, hasTarget, portClosed,
                  chan, handles, tasks, heap, promises, reqLog, execLog, idCount >>

\* Proximate.revokeProxies(obj) on a marked object.
revokeProxiesC(o) ==
  /\ marker[o] # NoId
  /\ idCount < MaxIds
  /\ proxies' = [proxies EXCEPT ![o[1]] = Remove(@, marker[o])]
  /\ marker' = [marker EXCEPT ![o] = nonce(idCount)]
  /\ idCount' = idCount + 1
  /\ revokedIds' = revokedIds \cup {marker[o]}
  /\ UNCHANGED << createKeep, defaultId, requests, relay, hasTarget, portClosed,
                  chan, handles, tasks, heap, promises, reqLog, execLog >>

\* The apply trap: proxy.m1.m2(args).
applyC(h, members, args) ==
  LET e == handles[h].ep
      p == Proc(e)
      s == serializeArgsC(marker, proxies[p], args)
  IN  /\ Usable(h, members)
      /\ \A i \in 1..Len(s.wires) : CloneableC(s.wires[i])
      /\ proxies' = [proxies EXCEPT ![p] = s.X]
      /\ sendRequestC(e, [h |-> h, direct |-> members = <<>>],
                      [p |-> handles[h].path \o members, a |-> s.wires])
      /\ UNCHANGED << createKeep, defaultId, marker, relay, hasTarget, portClosed,
                      handles, tasks, heap, execLog, idCount, revokedIds >>

\* The get trap for 'then' on a path longer than 1: await proxy.m1.m2.
thenC(h, members) ==
  LET e == handles[h].ep IN
  /\ Usable(h, members)
  /\ Len(handles[h].path \o members) > 1
  /\ sendRequestC(e, [h |-> h, direct |-> FALSE], [p |-> handles[h].path \o members])
  /\ UNCHANGED << createKeep, defaultId, proxies, marker, relay, hasTarget, portClosed,
                  handles, tasks, heap, execLog, idCount, revokedIds >>

\* The set trap: proxy.m1.prop = value.
setC(h, members, prop, value) ==
  LET e == handles[h].ep
      p == Proc(e)
      s == serializeC(marker, proxies[p], value)
  IN  /\ Usable(h, members)
      /\ CloneableC(s.wire)
      /\ proxies' = [proxies EXCEPT ![p] = s.X]
      /\ sendRequestC(e, [h |-> h, direct |-> members = <<>>],
                      [p |-> handles[h].path \o members \o <<prop>>, d |-> s.wire])
      /\ UNCHANGED << createKeep, defaultId, marker, relay, hasTarget, portClosed,
                      handles, tasks, heap, execLog, idCount, revokedIds >>

\* proxy[Proximate.close]() on a proxy received as a value (path length 1, a
\* target without a close method): revoke it and post a dereference request.
closeProxy(h) ==
  LET e == handles[h].ep IN
  /\ Usable(h, <<>>)
  /\ handles[h].path # <<"">>
  /\ Len(handles[h].path) = 1
  /\ handles' = [handles EXCEPT ![h].revoked = TRUE]
  /\ sendRequestC(e, [h |-> h, direct |-> TRUE], [p |-> handles[h].path, c |-> TRUE])
  /\ UNCHANGED << createKeep, defaultId, proxies, marker, relay, hasTarget, portClosed,
                  tasks, heap, execLog, idCount, revokedIds >>

\* proxy[Proximate.close]() on the proxy h that Proximate.create returned: the
\* close method of its target.  It removes the listener the port carries at
\* that moment, deletes RELAY_MARKER, closes the port and dereferences the id
\* of the relay it was made for; the pending requests are not touched, and the
\* proxy is not revoked, so the method can be invoked again.
close(h) ==
  LET e == handles[h].ep IN
  /\ h \in DOMAIN primary
  /\ relay' = relay \ {e}
  /\ portClosed' = portClosed \cup {e}
  /\ chan' = [chan EXCEPT ![e] = <<>>]
  /\ proxies' = IF primary[h].target
                  THEN [proxies EXCEPT ![Proc(e)] = derefProxy(@, primary[h].id)]
                  ELSE proxies
  /\ primary' = [primary EXCEPT ![h].closes = @ + 1]
  /\ UNCHANGED << mapObjectToId, mapIdToObject, protocols, endpoints, wrapLog, defaultId, requests,
                  marker, hasTarget, handles, tasks, heap, promises, reqLog, execLog,
                  idCount, revokedIds >>

----------------------------------------------------------------------------
\* create draft: the dispatcher.

isRequestC(message) == "n" \in DOMAIN message /\ "p" \in DOMAIN message
isResponseC(message) ==
  "n" \in DOMAIN message /\ ("r" \in DOMAIN message \/ "e" \in DOMAIN message)

\* The try block of handleRequest up to the result.
executeC(e, message, X, H, hp) ==
  LET proxyId == Head(message.p)
      key == IF proxyId # "" THEN proxyId ELSE defaultId[e]
      thrown(x, H1) == [k |-> "error", v |-> x, X |-> X, H |-> H1, heap |-> hp]
  IN
  IF key \notin DOMAIN X THEN thrown(Err("TypeError"), H)
  ELSE
    LET root == X[key].target
        w == Walk(hp, Undefined, root, Tail(message.p))
    IN
    IF ~w.ok THEN thrown(Err("TypeError"), H)
    ELSE IF "a" \in DOMAIN message THEN
      LET d == deserializeArgsC(e, H, message.a, FALSE)
          a == Apply(w.receiver, d.vals)
      IN  [k |-> a.k, v |-> a.v, X |-> X, H |-> Retain(H, d.H, Keeps(w.receiver)), heap |-> hp]
    ELSE IF "c" \in DOMAIN message THEN
      [k |-> "result", v |-> Undefined, X |-> derefProxy(X, proxyId), H |-> H, heap |-> hp]
    ELSE IF "d" \in DOMAIN message THEN
      IF root.o \notin Settable THEN thrown(Err("proxied object not settable"), H)
      ELSE LET d == deserializeC(e, H, message.d, TRUE)
               member == message.p[Len(message.p)]
           IN  IF w.parent.t # "obj" THEN thrown(Err("TypeError"), d.H)
               ELSE [k |-> "result", v |-> Undefined, X |-> X, H |-> d.H,
                     heap |-> [hp EXCEPT ![w.parent.o][member] = d.v]]
    ELSE [k |-> "result",
          v |-> IF Len(message.p) = 1 THEN Undefined ELSE w.receiver,
          X |-> X, H |-> H, heap |-> hp]

\* response[RESULT] = this.serialize(result), or response[ERROR] = this.serialize(e).
respondC(n, k, v, M, X) ==
  LET s == serializeC(M, X, v) IN
  [message |-> IF k = "result" THEN [n |-> n, r |-> s.wire] ELSE [n |-> n, e |-> s.wire],
   X |-> s.X]

handleRequestC(e, message) ==
  LET p == Proc(e)
      proxyId == Head(message.p)
      key == IF proxyId # "" THEN proxyId ELSE defaultId[e]
      x == executeC(e, message, proxies[p], handles, heap)
      r == respondC(message.n, x.k, x.v, marker, x.X)
      done == x.k # "pending"
  IN  /\ handles' = x.H
      /\ heap' = x.heap
      /\ proxies' = [proxies EXCEPT ![p] = IF done THEN r.X ELSE x.X]
      /\ chan' = IF done THEN postMessageC([chan EXCEPT ![e] = Tail(@)], e, r.message)
                 ELSE [chan EXCEPT ![e] = Tail(@)]
      /\ tasks' = IF done THEN tasks ELSE [tasks EXCEPT ![e] = @ \cup {message.n}]
      /\ execLog' = [execLog EXCEPT ![message.n] =
                       [delivered |-> @.delivered + 1,
                        posted |-> @.posted + (IF done THEN 1 ELSE 0),
                        k |-> x.k, v |-> x.v,
                        stale |-> key \in revokedIds,
                        message |-> message]]
      /\ UNCHANGED << requests, promises >>

handleResponseC(e, message) ==
  IF message.n \in DOMAIN requests[e]
    THEN LET request == requests[e][message.n]
             isResult == "r" \in DOMAIN message
             d == deserializeC(e, handles, IF isResult THEN message.r ELSE message.e, TRUE)
         IN  /\ requests' = [requests EXCEPT ![e] = Remove(@, message.n)]
             /\ handles' = d.H
             /\ promises' = [promises EXCEPT ![request] =
                               settle(@, IF isResult THEN "fulfilled" ELSE "rejected", d.v)]
             /\ chan' = [chan EXCEPT ![e] = Tail(@)]
             /\ UNCHANGED << proxies, tasks, heap, execLog >>
    ELSE /\ chan' = [chan EXCEPT ![e] = Tail(@)]
         /\ UNCHANGED << requests, handles, promises, proxies, tasks, heap, execLog >>

\* The listener of a port that carries RELAY_MARKER takes the next message.
handleMessageC(e) ==
  /\ e \in relay
  /\ chan[e] # <<>>
  /\ LET message == Head(chan[e]) IN
       IF isRequestC(message) THEN handleRequestC(e, message)
       ELSE IF isResponseC(message) THEN handleResponseC(e, message)
       ELSE /\ chan' = [chan EXCEPT ![e] = Tail(@)]
            /\ UNCHANGED << requests, handles, promises, proxies, tasks, heap, execLog >>
  /\ UNCHANGED << createKeep, defaultId, marker, relay, hasTarget, portClosed, reqLog,
                  idCount, revokedIds >>

\* The promise a suspended handleRequest awaits settles.
resumeC(e, n, k, v) ==
  LET p == Proc(e)
      r == respondC(n, k, v, marker, proxies[p])
  IN  /\ n \in tasks[e]
      /\ tasks' = [tasks EXCEPT ![e] = @ \ {n}]
      /\ proxies' = [proxies EXCEPT ![p] = r.X]
      /\ chan' = postMessageC(chan, e, r.message)
      /\ execLog' = [execLog EXCEPT ![n] = [@ EXCEPT !.posted = @ + 1, !.k = k, !.v = v]]
      /\ UNCHANGED << createKeep, defaultId, requests, marker, relay, hasTarget, portClosed,
                      handles, heap, promises, reqLog, idCount, revokedIds >>

\* The inputs of the create draft.
ApiObjects == {o \in Objects : o[2] = "api"}

NextC ==
  \/ \E o \in ApiObjects : enableProxy(o)
  \/ \E o \in ApiObjects : revokeProxiesC(o)
  \/ \E h \in HandleIds : \E c \in Calls(Proc(handles[h].ep)) : Budget /\ applyC(h, c.m, c.a)
  \/ \E h \in HandleIds : \E m \in GetPaths : Budget /\ thenC(h, m)
  \/ \E h \in HandleIds : Budget /\ setC(h, <<>>, "value", Prim(21))
  \/ \E h \in HandleIds : Budget /\ closeProxy(h)
  \/ \E h \in HandleIds : Throws(h)
  \/ \E h \in DOMAIN primary : primary[h].closes = 0 /\ close(h)
  \/ \E e \in Endpoints : handleMessageC(e)
  \/ \E e \in Endpoints : \E n \in tasks[e] :
        \/ resumeC(e, n, "result", Prim(7))
        \/ resumeC(e, n, "error", Err("late"))

SpecCreate == InitC /\ [][NextC]_vars

\* create draft, settable: both ports are created with a target, the api of
\* process 1 as it is and the api of process 2 marked settable; each process
\* writes and reads a member and a nested member of the peer's target.
InitSettable ==
    LET S == create(create(Uncreated, <<1, 1>>, ObjRef(<<1, "api">>)),
                    <<1, 2>>, ObjRef(<<2, "api">>))
    IN
    /\ proxies = S.X
    /\ idCount = S.ids
    /\ defaultId = S.defaultId
    /\ handles = S.handles
    /\ relay = S.relay
    /\ primary = S.primary
    /\ hasTarget = S.hasTarget
    /\ marker = [o \in Objects |-> NoId]
    /\ portClosed = {}
    /\ mapObjectToId = [p \in Procs |-> EmptyMap]
    /\ mapIdToObject = [p \in Procs |-> EmptyMap]
    /\ protocols = [p \in Procs |-> <<>>]
    /\ endpoints = {}
    /\ wrapLog = <<>>
    /\ requests = [e \in Endpoints |-> EmptyMap]
    /\ chan = [e \in Endpoints |-> <<>>]
    /\ tasks = [e \in Endpoints |-> {}]
    /\ heap = InitHeap
    /\ promises = [n \in Nonces |-> NoPromise]
    /\ reqLog = <<>>
    /\ execLog = [n \in Nonces |-> NoExec]
    /\ revokedIds = {}

NextSettable ==
  \/ \E h \in HandleIds : Budget /\ setC(h, <<>>, "value", Prim(21))
  \/ \E h \in HandleIds : Budget /\ setC(h, <<"foo">>, "x", Prim(21))
  \/ \E h \in HandleIds : Budget /\ thenC(h, <<"value">>)
  \/ \E h \in HandleIds : Budget /\ thenC(h, <<"foo", "x">>)
  \/ \E e \in Endpoints : handleMessageC(e)

SpecSettable == InitSettable /\ [][NextSettable]_vars

\* create draft, the scenario of the revokeProxies test: objects are marked,
\* passed as the argument of store, revoked and passed again, and the proxies
\* the peer keeps are called.
RepassCalls(p) == { [m |-> <<>>, a |-> <<>>],
                    [m |-> <<"store">>, a |-> <<ObjRef(<<p, "api">>)>>] }

NextRepass ==
  \/ \E o \in ApiObjects : enableProxy(o)
  \/ \E o \in ApiObjects : revokeProxiesC(o)
  \/ \E h \in HandleIds : \E c \in RepassCalls(Proc(handles[h].ep)) :
        Len(reqLog) < MaxRepass /\ applyC(h, c.m, c.a)
  \/ \E e \in Endpoints : handleMessageC(e)

SpecRepass == InitC /\ [][NextRepass]_vars

\* Proximate.create(messagePort, options) on a port of a running program.  The
\* constructor throws 'MessagePort in use' while the port carries RELAY_MARKER;
\* a port whose proxy was closed carries none and is taken again.
createAgain(e, target) ==
  LET S == create([X |-> proxies, ids |-> idCount, defaultId |-> defaultId,
                   handles |-> handles, primary |-> primary, relay |-> relay,
                   hasTarget |-> hasTarget], e, target)
  IN  /\ e \notin relay
      /\ idCount < MaxIds
      /\ proxies' = S.X
      /\ idCount' = S.ids
      /\ defaultId' = S.defaultId
      /\ handles' = S.handles
      /\ primary' = S.primary
      /\ relay' = S.relay
      /\ hasTarget' = S.hasTarget
      /\ UNCHANGED << mapObjectToId, mapIdToObject, protocols, endpoints, wrapLog, requests, marker,
                      portClosed, chan, tasks, heap, promises, reqLog, execLog, revokedIds >>

\* create draft, closing and creating again: the close method of a proxy is
\* invoked up to MaxCloses times, and a port that was closed is handed to
\* Proximate.create again.
NextReopen ==
  \/ \E h \in HandleIds : Budget /\ applyC(h, <<>>, <<>>)
  \/ \E h \in DOMAIN primary : primary[h].closes < MaxCloses /\ close(h)
  \/ \E e \in Endpoints : \E t \in {Undefined, ObjRef(<<Proc(e), "api">>)} : createAgain(e, t)
  \/ \E e \in Endpoints : handleMessageC(e)

SpecReopen == InitC /\ [][NextReopen]_vars

----------------------------------------------------------------------------
\* Vocabulary of the properties.

\* The endpoint that posted request n.
Caller(n) == handles[reqLog[n].h].ep

\* The positions of the responses to request n that are in flight.
ResponsesInFlight(n) ==
  {x \in Endpoints \X (1..2 * Cardinality(Nonces)) :
     /\ x[2] <= Len(chan[x[1]])
     /\ ~isRequest(chan[x[1]][x[2]])
     /\ "id" \in DOMAIN chan[x[1]][x[2]]
     /\ chan[x[1]][x[2]].id = n}

Suspended(n) == \E e \in Endpoints : n \in tasks[e]

\* No message is in flight and no handler is suspended.
Quiescent == \A e \in Endpoints : chan[e] = <<>> /\ tasks[e] = {}

\* The id a request names: its path head, or the primary id of the connection.
ProxyIdOf(e, message) ==
  IF Head(message.path) # "" THEN Head(message.path) ELSE defaultId[e]

\* This step is the dispatcher of endpoint e taking request n from its queue.
Delivers(e, n) ==
  /\ chan[e] # <<>>
  /\ isRequest(Head(chan[e]))
  /\ Head(chan[e]).id = n
  /\ execLog'[n].delivered = execLog[n].delivered + 1

\* The error the dispatcher raises for an id that is not in the registry.
InvalidProxy == Err("invalid proxy")
ErrorWire(x) == [type |-> "_error", data |-> [message |-> x.msg, stack |-> x.stack]]
ErrorWireC(x) == [e |-> [message |-> x.msg, stack |-> x.stack]]

----------------------------------------------------------------------------
C2_ResponseSettlesItsOwnRequest ==
  \A n \in Nonces :
    /\ promises[n].calls <= 1
    /\ promises[n].calls = 1 => promises[n].s \in {"fulfilled", "rejected"}
    /\ promises[n].s = "fulfilled" =>
          execLog[n].posted = 1 /\ execLog[n].k = "result" /\ promises[n].v = execLog[n].v
    /\ promises[n].s = "rejected" =>
          execLog[n].posted = 1 /\ execLog[n].k = "error" /\ promises[n].v = execLog[n].v

\* Two requests of one endpoint were pending together; the later one is settled
\* while the response to the earlier one is still on its way.
C2_Witness ==
  \E n, m \in Nonces :
    /\ n < m /\ m <= Len(reqLog) /\ Caller(n) = Caller(m)
    /\ promises[m].s = "fulfilled" /\ promises[m].v = Prim(42)
    /\ promises[n].s = "pending" /\ execLog[n].posted = 1 /\ execLog[n].v = Prim(7)

\* C3: a pending-request entry lives one round trip: once the response for nonce
\* n has been handled the table holds no entry for n, and the table is empty
\* whenever no message is in flight and no handler is suspended.
C3_PendingEntryLivesOneRoundTrip ==
  /\ \A n \in Nonces : \A e \in Endpoints :
       /\ (n <= Len(reqLog) /\ promises[n].calls = 0 /\ e = Caller(n)) => n \in DOMAIN requests[e]
       /\ promises[n].calls >= 1 => n \notin DOMAIN requests[e]
  /\ Quiescent => \A e \in Endpoints : requests[e] = EmptyMap

\* A response was handled and its promise settled while nothing is in flight.
C3_Witness ==
  /\ Quiescent
  /\ \E n \in Nonces : promises[n].calls = 1

\* The handles of path length 1 that were minted for id of process p and not
\* released; the primary handle of an endpoint stands for the primary id of its peer.
Unreleased(p, id) ==
  {h \in HandleIds :
     /\ Len(handles[h].path) = 1
     /\ ~handles[h].revoked
     /\ Proc(Peer(handles[h].ep)) = p
     /\ ProxyIdOf(Peer(handles[h].ep), [path |-> handles[h].path]) = id}

\* C4: whenever no message is in flight, the count of every registry entry
\* equals the number of unreleased handles of path length 1, over all peers,
\* whose head is the id of the entry.
C4_CountEqualsUnreleasedHandles ==
  Quiescent =>
    \A p \in Procs : \A id \in DOMAIN mapIdToObject[p] :
      mapIdToObject[p][id].count = Cardinality(Unreleased(p, id))

\* An object was passed by handle in a request that was answered, and nothing
\* is in flight.
C4_Witness ==
  /\ Quiescent
  /\ \E n \in Nonces : promises[n].calls = 1
  /\ \E p \in Procs : \E id \in DOMAIN mapIdToObject[p] : mapIdToObject[p][id].count > 1

C6_RevokedHandlesRejected ==
  /\ \A p \in Procs : revokedIds \cap DOMAIN mapIdToObject[p] = {}
  /\ \A n \in Nonces :
       (execLog[n].delivered = 1 /\ execLog[n].stale) =>
          /\ execLog[n].posted = 1
          /\ execLog[n].k = "error" /\ execLog[n].v = InvalidProxy
          /\ promises[n].calls = 1 => promises[n].s = "rejected"

\* The primary receiver was revoked and then passed by proxy again; a request
\* through the old primary handle was rejected all the same.
C6_Witness ==
  \E n \in Nonces :
    /\ execLog[n].stale /\ promises[n].s = "rejected"
    /\ ObjRef(<<1, "api">>) \in DOMAIN mapObjectToId[1]

\* This step is the create draft's dispatcher of endpoint e taking request n.
DeliversC(e, n) ==
  /\ chan[e] # <<>>
  /\ isRequestC(Head(chan[e]))
  /\ Head(chan[e]).n = n
  /\ execLog'[n].delivered = execLog[n].delivered + 1

\* C7: after revokeProxies(obj) the object carries an identifier that was never
\* revoked, so a new pass of obj mints a handle under a fresh identifier; a call
\* through a handle whose identifier is registered executes the object and is
\* answered with its result, while a request that names a revoked identifier
\* is answered with an error.
C7_RepassMintsFreshHandle ==
  /\ [](/\ \A o \in Objects : marker[o] \notin revokedIds
        /\ \A p \in Procs : revokedIds \cap DOMAIN proxies[p] = {})
  /\ [][\A e \in Endpoints : \A n \in Nonces :
          DeliversC(e, n) =>
             LET message == Head(chan[e])
                 key == IF Head(message.p) # "" THEN Head(message.p) ELSE defaultId[e]
                 X == proxies[Proc(e)]
             IN  /\ key \in revokedIds =>
                       /\ execLog'[n].k = "error"
                       /\ chan'[Peer(e)] =
                            Append(chan[Peer(e)], [n |-> n, e |-> ErrorWireC(Err("TypeError"))])
                 /\ (/\ key \in DOMAIN X
                     /\ X[key].target.o[2] = "api"
                     /\ Len(message.p) = 1
                     /\ "a" \in DOMAIN message) =>
                       /\ execLog'[n].k = "result" /\ execLog'[n].v = Prim(42)
                       /\ chan'[Peer(e)] = Append(chan[Peer(e)], [n |-> n, r |-> Prim(42)])]_vars

\* api of process 2 was passed by proxy, revoked and passed again: the call
\* through the handle of the second pass resolved with the result of api, the
\* call through the handle of the first pass was rejected.
C7_Witness ==
  \E old, new \in HandleIds : \E n, m \in Nonces :
    /\ Len(handles[old].path) = 1 /\ handles[old].path[1] \in revokedIds
    /\ Len(handles[new].path) = 1 /\ handles[new].path[1] = marker[<<2, "api">>]
    /\ marker[<<2, "api">>] \in DOMAIN proxies[2]
    /\ proxies[2][marker[<<2, "api">>]].target = ObjRef(<<2, "api">>)
    /\ n <= Len(reqLog) /\ reqLog[n] = [h |-> new, direct |-> TRUE]
    /\ promises[n].s = "fulfilled" /\ promises[n].v = Prim(42)
    /\ m <= Len(reqLog) /\ reqLog[m] = [h |-> old, direct |-> TRUE]
    /\ promises[m].s = "rejected"

\* C8: a request whose head names an id that is not in the registry executes
\* nothing (no registry, object or handle changes), is answered with the
\* unknown-receiver error, and the caller's promise rejects.
C8_UnknownReceiverRejects ==
  /\ [](\A n \in Nonces :
          (execLog[n].v = InvalidProxy /\ promises[n].calls = 1) =>
             promises[n].s = "rejected" /\ promises[n].v = InvalidProxy)
  /\ [][\A e \in Endpoints : \A n \in Nonces :
          (Delivers(e, n) /\ ProxyIdOf(e, Head(chan[e])) \notin DOMAIN mapIdToObject[Proc(e)]) =>
             /\ heap' = heap /\ handles' = handles /\ tasks' = tasks
             /\ mapIdToObject' = mapIdToObject /\ mapObjectToId' = mapObjectToId
             /\ execLog'[n].k = "error" /\ execLog'[n].v = InvalidProxy
             /\ chan'[Peer(e)] = Append(chan[Peer(e)], [id |-> n, error |-> ErrorWire(InvalidProxy)])]_vars

\* The primary handle was released, which took the count of the primary receiver
\* to zero and removed it; a later call through a nested proxy was rejected.
C8_Witness ==
  \E n \in Nonces :
    /\ promises[n].s = "rejected" /\ promises[n].v = InvalidProxy
    /\ ~execLog[n].stale
    /\ mapIdToObject[1] = EmptyMap
    /\ Caller(n) = <<1, 2>>

\* C9: after both peers of the connection have closed, the proxies table holds
\* no entry the connection introduced: neither the primary target nor an object
\* that was passed by proxy over it.  The only connection of the model
\* introduced every entry.
C9_ClosedConnectionLeavesNoEntry ==
  portClosed = Endpoints => \A p \in Procs : proxies[p] = EmptyMap

\* Both peers closed after an object had been passed by proxy and a handle for it
\* had been minted at the other peer.
C9_Witness ==
  /\ portClosed = Endpoints
  /\ \E h \in HandleIds : handles[h].path # <<"">> /\ handles[h].held

\* C10: when a connection is closed, every request of it that is pending at
\* that moment is rejected with a connection-closed error.
C10_CloseRejectsPending ==
  [][\A e \in Endpoints :
       (e \notin portClosed /\ e \in portClosed') =>
          \A n \in DOMAIN requests[e] :
             promises[n].s = "pending" =>
                /\ promises'[n].s = "rejected"
                /\ promises'[n].v = Err("connection closed")]_vars

\* An endpoint closed while one of its requests was pending.
C10_Witness ==
  \E e \in portClosed : \E n \in DOMAIN requests[e] : promises[n].s = "pending"

\* The error of an operation on a closed connection.
ConnectionClosed == Err("connection closed")

\* This step posts request n (a call, a get or a write) through a proxy of endpoint e.
Issues(e, n) ==
  /\ Len(reqLog) = n - 1
  /\ Len(reqLog') = n
  /\ handles[reqLog'[n].h].ep = e

\* C11: a call, get or write issued through any handle of a connection after
\* the connection was closed rejects with a connection-closed error: the step
\* that issues it leaves its promise rejected, not pending.
C11_UseAfterCloseRejects ==
  [][\A e \in Endpoints : \A n \in Nonces :
       (Issues(e, n) /\ e \in portClosed) =>
          /\ promises'[n].s = "rejected"
          /\ promises'[n].v = ConnectionClosed]_vars

\* A request was issued through the primary handle of an endpoint after that
\* endpoint had closed (the peer is open and never saw the request): its
\* promise is pending and no message of the connection is left to settle it.
C11_Witness ==
  \E n \in Nonces :
    /\ n <= Len(reqLog)
    /\ Caller(n) \in portClosed /\ Peer(Caller(n)) \notin portClosed
    /\ execLog[n].delivered = 0
    /\ Quiescent
    /\ promises[n].s = "pending"

\* This step is an invocation of the close method of primary proxy h.
Closes(h) == primary'[h].closes = primary[h].closes + 1

\* C12: invoking close on a primary handle a second time is a no-op in whatever
\* state it is invoked, also after the same port was created anew: it removes
\* no listener, changes no count of the proxies table, closes nothing and
\* posts or drops no message.
C12_SecondCloseIsNoOp ==
  [][\A h \in DOMAIN primary :
       (primary[h].closes >= 1 /\ Closes(h)) =>
          /\ relay' = relay
          /\ proxies' = proxies
          /\ portClosed' = portClosed
          /\ chan' = chan]_vars

\* The close method of a proxy was invoked twice, the port was created anew in
\* between, and the listener of the new relay is gone although the close method
\* of the new proxy was never invoked.
C12_Witness ==
  \E h, g \in DOMAIN primary :
    /\ h < g /\ handles[h].ep = handles[g].ep
    /\ primary[h].closes = 2 /\ primary[g].closes = 0
    /\ handles[g].ep \notin relay

\* C13: a handle that refers to an object of side B and that side A passes back
\* to B resolves on B to B's own object: no registry holds a receiver entry for
\* a handle itself, and every handle a side holds names an entry of the peer
\* whose receiver is an object of the peer, never a handle that routes back.
C13_OwnHandleResolvesToObject ==
  /\ \A p \in Procs : \A id \in DOMAIN mapIdToObject[p] :
       mapIdToObject[p][id].receiver.t # "handle"
  /\ \A h \in HandleIds :
       LET e == handles[h].ep
           id == Head(handles[h].path)
           R == mapIdToObject[Proc(Peer(e))]
       IN  (id # "" /\ id \in DOMAIN R) =>
              R[id].receiver.t = "obj" /\ R[id].receiver.o[1] = Proc(Peer(e))

\* Process 2 passed a proxy for an object of process 1 back to process 1 in a
\* call that was answered; process 1 minted a proxy for it.
C13_Witness ==
  \E n \in Nonces : \E h, g \in HandleIds :
    /\ n <= Len(reqLog) /\ promises[n].s = "fulfilled"
    /\ Caller(n) = <<1, 2>>
    /\ handles[h].ep = <<1, 2>> /\ handles[h].path = <<"">>
    /\ handles[g].ep = <<1, 1>> /\ Head(handles[g].path) \in DOMAIN mapIdToObject[2]
    /\ mapIdToObject[2][Head(handles[g].path)].receiver = HandleRef(h)

\* The requests posted by calling handle g itself: g(x).
CallsOf(g) ==
  {n \in 1..Len(reqLog) : reqLog[n] = [h |-> g, direct |-> TRUE]}

\* Handle g was minted for function f of the peer: the handles a process keeps
\* are the arguments of store, and store is handed the function api of its
\* caller and nothing else.
HandleOf(g, f) ==
  /\ handles[g].held
  /\ Len(handles[g].path) = 1 /\ handles[g].path # <<"">>
  /\ f = <<Proc(Peer(handles[g].ep)), "api">>

\* C14: with the function protocol registered at both peers, a function f sent
\* through the connection yields at the other peer a handle g such that every
\* call g(x) is executed at the owner of f exactly once, as a call of f, and
\* the promise of the caller resolves with f(x).
C14_PassedFunctionIsCalledOnce ==
  \A g \in HandleIds : \A f \in ApiObjects :
    (/\ HandleOf(g, f)
     /\ \A p \in Procs : \E i \in 1..Len(protocols[p]) : protocols[p][i] = "function") =>
       \A n \in CallsOf(g) :
         /\ execLog[n].delivered <= 1
         /\ execLog[n].posted <= execLog[n].delivered
         /\ execLog[n].delivered = 1 =>
               /\ execLog[n].k = "result"
               /\ execLog[n].v = Apply(ObjRef(f), <<>>).v
               /\ execLog[n].posted = 1
         /\ promises[n].calls <= 1
         /\ promises[n].calls = 1 =>
               /\ execLog[n].delivered = 1
               /\ promises[n].s = "fulfilled"
               /\ promises[n].v = Apply(ObjRef(f), <<>>).v

\* Process 2 passed its function api to process 1; process 1 called the handle
\* it kept and the call resolved with the result of api.
C14_Witness ==
  \E g \in HandleIds : \E n \in CallsOf(g) :
    /\ handles[g].ep = <<1, 1>>
    /\ HandleOf(g, <<2, "api">>)
    /\ mapIdToObject[2][Head(handles[g].path)].receiver = ObjRef(<<2, "api">>)
    /\ execLog[n].delivered = 1
    /\ promises[n].s = "fulfilled" /\ promises[n].v = Prim(42)

\* Request n was executed and is the write of value wire w to member k of the
\* primary receiver: proxy.k = v.
IsWrite(n, k) ==
  LET message == execLog[n].message IN
  /\ execLog[n].delivered = 1
  /\ "value" \in DOMAIN message
  /\ message.path = <<"", k>>

\* Request n was executed and is the read of member k of the primary receiver.
IsRead(n, k) ==
  LET message == execLog[n].message IN
  /\ execLog[n].delivered = 1
  /\ DOMAIN message = {"id", "path"}
  /\ message.path = <<"", k>>

\* The primary receiver of the peer of endpoint e is registered.
PrimaryReceiver(e) == mapIdToObject[Proc(Peer(e))][defaultId[Peer(e)]].receiver
HasPrimaryReceiver(e) == defaultId[Peer(e)] \in DOMAIN mapIdToObject[Proc(Peer(e))]

\* C15: if a caller performs the write h.k = v and afterwards awaits the get
\* h.k on the same connection, and nothing else writes k, the get resolves to v
\* and the property k of the receiver holds v (the transport delivers in order).
C15_ReadAfterWrite ==
  \A n, m \in 1..Len(reqLog) : \A k \in SetProps :
    (/\ n < m /\ Caller(n) = Caller(m)
     /\ HasPrimaryReceiver(Caller(n))
     /\ IsWrite(n, k) /\ IsRead(m, k)
     /\ \A w \in 1..Len(reqLog) : w # n => execLog[w].delivered = 1 /\ ~IsWrite(w, k)) =>
       LET v == execLog[n].message.value IN
       /\ execLog[m].k = "result" /\ execLog[m].v = v
       /\ promises[m].calls = 1 => promises[m].s = "fulfilled" /\ promises[m].v = v
       /\ heap[PrimaryReceiver(Caller(n)).o][k] = v

\* Process 2 wrote 0 to the member value of the receiver (42 before) and then
\* read value: the read resolved to 0.
C15_Witness ==
  \E n, m \in 1..Len(reqLog) :
    /\ n < m /\ Caller(n) = <<1, 2>> /\ Caller(m) = <<1, 2>>
    /\ IsWrite(n, "value") /\ execLog[n].message.value = Prim(0)
    /\ IsRead(m, "value")
    /\ promises[m].s = "fulfilled" /\ promises[m].v = Prim(0)
    /\ heap[<<1, "api">>]["value"] = Prim(0)

\* The chain of one to three names exists on object o: every name but the last
\* leads to an object.
ChainExists(hp, o, chain) ==
  /\ Len(chain) \in 1..3
  /\ Len(chain) >= 2 => hp[o][chain[1]].t = "obj"
  /\ Len(chain) >= 3 => hp[hp[o][chain[1]].o][chain[2]].t = "obj"

\* The value stored at the chain: o.a, o.a.b or o.a.b.c.
ValueAt(hp, o, chain) ==
  IF Len(chain) = 1 THEN hp[o][chain[1]]
  ELSE IF Len(chain) = 2 THEN hp[hp[o][chain[1]].o][chain[2]]
  ELSE hp[hp[hp[o][chain[1]].o][chain[2]].o][chain[3]]

\* C16: for a receiver and a chain of member names that exists on it, awaiting
\* the handle read along the chain from the primary handle takes one request,
\* which the dispatcher answers with one response carrying the value stored at
\* that path, and the promise resolves to that value.
C16_PathReadResolvesToValue ==
  /\ [](\A m \in 1..Len(reqLog) :
          LET message == execLog[m].message IN
          (execLog[m].delivered = 1 /\ DOMAIN message = {"id", "path"}) =>
             /\ execLog[m].posted = 1
             /\ promises[m].calls <= 1
             /\ (promises[m].calls = 1 /\ execLog[m].k = "result") =>
                   promises[m].s = "fulfilled" /\ promises[m].v = execLog[m].v)
  /\ [][\A e \in Endpoints : \A m \in Nonces :
          LET message == Head(chan[e]) IN
          (/\ Delivers(e, m)
           /\ DOMAIN message = {"id", "path"}
           /\ Head(message.path) = ""
           /\ defaultId[e] \in DOMAIN mapIdToObject[Proc(e)]
           /\ ChainExists(heap, mapIdToObject[Proc(e)][defaultId[e]].receiver.o,
                          Tail(message.path))) =>
             LET v == ValueAt(heap, mapIdToObject[Proc(e)][defaultId[e]].receiver.o,
                              Tail(message.path))
             IN  /\ execLog'[m].k = "result" /\ execLog'[m].v = v
                 /\ chan'[Peer(e)] = Append(chan[Peer(e)], [id |-> m, result |-> v])
                 /\ Len(reqLog') = Len(reqLog)]_vars

\* Process 2 awaited proxy.foo.bar.value: one request was dispatched, one
\* response posted, and the promise resolved to the 5 stored at that path.
C16_Witness ==
  \E m \in 1..Len(reqLog) :
    /\ execLog[m].delivered = 1 /\ execLog[m].posted = 1
    /\ execLog[m].message.path = <<"", "foo", "bar", "value">>
    /\ promises[m].s = "fulfilled" /\ promises[m].v = Prim(5)
    /\ promises[m].v = heap[<<1, "bar">>]["value"]

\* Request n was executed and is the call echo(w) on the primary receiver,
\* with w the value on the wire.
IsEcho(n) ==
  LET message == execLog[n].message IN
  /\ execLog[n].delivered = 1
  /\ "args" \in DOMAIN message
  /\ message.path = <<"", "echo">>
  /\ Len(message.args) = 1

\* C17: for every primitive v, null, undefined, false, 0 and the empty string
\* among them, deserialize(serialize(v)) is v at either peer with whatever
\* protocols are registered, so a call of the identity function with v is
\* answered with a result, not an error, and the promise resolves to v.
C17_PrimitivesRoundTrip ==
  /\ \A p \in Procs : \A e \in Endpoints : \A v \in Primitives :
       LET s == serialize(protocols[p], Reg(p), v)
           d == deserialize(protocols[Proc(e)], e, handles, s.wire, TRUE)
       IN  /\ s.R = Reg(p)
           /\ d.ok /\ d.v = v /\ d.H = handles
  /\ \A n \in 1..Len(reqLog) :
       (/\ IsEcho(n) /\ HasPrimaryReceiver(Caller(n))
        /\ execLog[n].message.args[1] \in Primitives) =>
          LET v == execLog[n].message.args[1] IN
          /\ execLog[n].k = "result" /\ execLog[n].v = v /\ execLog[n].posted = 1
          /\ \A x \in ResponsesInFlight(n) :
                LET response == chan[x[1]][x[2]] IN
                DOMAIN response = {"id", "result"} /\ response.result = v
          /\ promises[n].calls = 1 => promises[n].s = "fulfilled" /\ promises[n].v = v

\* The identity function was called with undefined and with 0, and both
\* promises resolved to the value passed.
C17_Witness ==
  \E n, m \in 1..Len(reqLog) :
    /\ IsEcho(n) /\ execLog[n].message.args[1] = Undefined
    /\ promises[n].s = "fulfilled" /\ promises[n].v = Undefined
    /\ IsEcho(m) /\ execLog[m].message.args[1] = Prim(0)
    /\ promises[m].s = "fulfilled" /\ promises[m].v = Prim(0)

\* C18: for every cloneable compound c that no registered protocol accepts,
\* deserialize(serialize(c)) is structurally equal to c, also when c has keys
\* named type, data or error: the identity function called with c is answered
\* with a result and the promise resolves to a value equal to c.
C18_CompoundsRoundTrip ==
  /\ \A p \in Procs : \A e \in Endpoints : \A c \in Compounds :
       LET s == serialize(protocols[p], Reg(p), c)
           d == deserialize(protocols[Proc(e)], e, handles, s.wire, TRUE)
       IN  /\ s.R = Reg(p)
           /\ Cloneable(s.wire)
           /\ d.ok /\ d.v = c /\ d.H = handles
  /\ \A n \in 1..Len(reqLog) :
       LET c == WireData(execLog[n].message.args[1]) IN
       (/\ IsEcho(n) /\ HasPrimaryReceiver(Caller(n))
        /\ c \in Compounds) =>
          /\ execLog[n].k = "result" /\ execLog[n].v = c /\ execLog[n].posted = 1
          /\ promises[n].calls = 1 => promises[n].s = "fulfilled" /\ promises[n].v = c

\* The identity function was called with {type: 'text', data: 1} and the
\* promise resolved to an equal compound.
C18_Witness ==
  \E n \in 1..Len(reqLog) :
    /\ IsEcho(n)
    /\ promises[n].s = "fulfilled"
    /\ promises[n].v = Compound([type |-> Str("text"), data |-> Prim(1)])

\* The errors the functions of the model throw (bad) or reject with (slow).
FunctionErrors == {Err("boom"), Err("late")}

\* Request n is a call whose function threw, or returned a promise that
\* rejected with, an error.
CallThrew(n) ==
  /\ execLog[n].delivered = 1
  /\ "args" \in DOMAIN execLog[n].message
  /\ execLog[n].k = "error"
  /\ execLog[n].v \in FunctionErrors

\* C19: if the function executed for a call throws an error with message m and
\* stack s, or returns a promise that rejects with it, the response carries m
\* and s and the promise of the caller rejects with an error of message m and
\* stack s.
C19_ThrownErrorReachesCaller ==
  \A n \in 1..Len(reqLog) :
    CallThrew(n) =>
      /\ execLog[n].posted = 1
      /\ \A x \in ResponsesInFlight(n) :
            LET response == chan[x[1]][x[2]] IN
            /\ DOMAIN response = {"id", "error"}
            /\ response.error.data = [message |-> execLog[n].v.msg, stack |-> execLog[n].v.stack]
      /\ promises[n].calls = 1 =>
            /\ promises[n].s = "rejected"
            /\ promises[n].v.t = "err"
            /\ promises[n].v.msg = execLog[n].v.msg
            /\ promises[n].v.stack = execLog[n].v.stack

\* One call threw at once and another returned a promise that rejected later:
\* both promises of the caller rejected with the message and stack thrown.
C19_Witness ==
  \E n, m \in 1..Len(reqLog) :
    /\ CallThrew(n) /\ execLog[n].v = Err("boom")
    /\ promises[n].s = "rejected" /\ promises[n].v.msg = "boom"
    /\ promises[n].v.stack = <<"at", "boom">>
    /\ CallThrew(m) /\ execLog[m].v = Err("late")
    /\ promises[m].s = "rejected" /\ promises[m].v.msg = "late"

\* The error deserialize raises for a protocol key that is not registered.
UnexpectedProtocol == Err("unexpected protocol")

\* The value a response carries: its result or its error.
Payload(response) ==
  IF "result" \in DOMAIN response THEN response.result ELSE response.error

\* This step is endpoint e handling the response to its pending request n.
HandlesResponse(e, n) ==
  /\ chan[e] # <<>>
  /\ ~isRequest(Head(chan[e]))
  /\ "id" \in DOMAIN Head(chan[e]) /\ Head(chan[e]).id = n
  /\ n \in DOMAIN requests[e]
  /\ chan'[e] = Tail(chan[e])

\* C20: when an incoming value names a protocol key that is not registered at
\* the receiving peer, the operation fails with an unknown-protocol error that
\* reaches the caller: a request whose argument names the key is answered with
\* that error and its promise rejects with it, and a response whose payload
\* names the key rejects the pending request it answers.
C20_UnknownProtocolReachesCaller ==
  /\ [](\A n \in 1..Len(reqLog) :
          (execLog[n].delivered = 1 /\ execLog[n].v = UnexpectedProtocol) =>
             /\ execLog[n].k = "error" /\ execLog[n].posted = 1
             /\ promises[n].calls = 1 =>
                   promises[n].s = "rejected" /\ promises[n].v = UnexpectedProtocol)
  /\ [][\A e \in Endpoints : \A n \in Nonces :
          (/\ HandlesResponse(e, n)
           /\ Truthy(WireType(Payload(Head(chan[e]))))
           /\ ~HasProtocol(Proc(e), WireType(Payload(Head(chan[e]))).s)) =>
             /\ promises'[n].s = "rejected"
             /\ promises'[n].v = UnexpectedProtocol]_vars

\* Process 2, without the function protocol, read a member that is a function
\* of process 1, which has the protocol: the response was handled, nothing is
\* in flight, and the promise is still pending.
C20_Witness ==
  \E n \in 1..Len(reqLog) :
    /\ Caller(n) = <<1, 2>>
    /\ ~HasProtocol(2, "function") /\ HasProtocol(1, "function")
    /\ execLog[n].posted = 1 /\ execLog[n].k = "result"
    /\ execLog[n].v = ObjRef(<<1, "store">>)
    /\ ResponsesInFlight(n) = {}
    /\ promises[n].s = "pending"

\* Request n was executed and is the call of the handle with path <<"">>
\* without arguments: proxy().
IsPrimaryCall(n) ==
  LET message == execLog[n].message IN
  /\ execLog[n].delivered = 1
  /\ "args" \in DOMAIN message
  /\ message.path = <<"">> /\ message.args = <<>>

\* C21: a request whose path head is the empty string is resolved against the
\* primary receiver of the connection on which it arrived, also when the
\* process has several connections with different primary receivers: a call
\* of the primary handle of a connection executes the receiver the peer's
\* endpoint of that connection was wrapped with.
C21_EmptyHeadIsPrimaryOfConnection ==
  \A n \in 1..Len(reqLog) :
    LET e == Peer(Caller(n)) IN
    (IsPrimaryCall(n) /\ ReceiverTwo(e) # Undefined) =>
       /\ execLog[n].k = Apply(ReceiverTwo(e), <<>>).k
       /\ execLog[n].v = Apply(ReceiverTwo(e), <<>>).v
       /\ promises[n].calls = 1 =>
             promises[n].s = "fulfilled" /\ promises[n].v = Apply(ReceiverTwo(e), <<>>).v

\* Process 2 called the primary handles of both connections: the call over
\* connection 1 resolved with the result of api, the call over connection 2
\* with the result of store.
C21_Witness ==
  \E n, m \in 1..Len(reqLog) :
    /\ IsPrimaryCall(n) /\ Caller(n) = <<1, 2>>
    /\ promises[n].s = "fulfilled" /\ promises[n].v = Prim(42)
    /\ IsPrimaryCall(m) /\ Caller(m) = <<2, 2>>
    /\ promises[m].s = "fulfilled" /\ promises[m].v = Prim(1)

\* This step is the dispatcher of endpoint e executing release request n of a
\* handle of path length 1 against the registered id.
Releases(e, n, id) ==
  /\ Delivers(e, n)
  /\ "release" \in DOMAIN Head(chan[e])
  /\ Len(Head(chan[e]).path) = 1
  /\ ProxyIdOf(e, Head(chan[e])) = id
  /\ id \in DOMAIN mapIdToObject[Proc(e)]

\* C22: a registry entry exists exactly while its count is greater than zero:
\* no reachable state holds an entry whose count is zero or negative, and a
\* decrement that brings the count to zero removes the entry from the
\* id-to-object map and its receiver from the object-to-id map, while any other
\* decrement lowers the count by one and keeps the entry.
C22_EntryExistsWhileCountPositive ==
  /\ [](\A p \in Procs : \A id \in DOMAIN mapIdToObject[p] :
          mapIdToObject[p][id].count > 0)
  /\ [][\A e \in EndpointsTwo : \A n \in Nonces : \A id \in DOMAIN mapIdToObject[Proc(e)] :
          Releases(e, n, id) =>
            LET p == Proc(e)
                entry == mapIdToObject[p][id]
            IN  IF entry.count = 1
                  THEN /\ id \notin DOMAIN mapIdToObject'[p]
                       /\ entry.receiver \notin DOMAIN mapObjectToId'[p]
                  ELSE /\ id \in DOMAIN mapIdToObject'[p]
                       /\ mapIdToObject'[p][id].count = entry.count - 1
                       /\ mapObjectToId'[p][entry.receiver] = id]_vars

\* Request n is a release of a handle of path length 1 that was executed
\* without an error.
Released(n) ==
  /\ execLog[n].delivered = 1 /\ execLog[n].k = "result"
  /\ "release" \in DOMAIN execLog[n].message
  /\ Len(execLog[n].message.path) = 1

\* The function of process 2 was passed over both connections, both handles
\* were released, the first release against count 2 and the second against
\* count 1, and the function is gone from both maps.
C22_Witness ==
  /\ \E n, m \in 1..Len(reqLog) :
       /\ n # m /\ Released(n) /\ Released(m)
       /\ execLog[n].message.path = execLog[m].message.path
       /\ Head(execLog[n].message.path) \notin DOMAIN mapIdToObject[2]
  /\ ObjRef(<<2, "api">>) \notin DOMAIN mapObjectToId[2]

\* The two registry maps of process p are inverse of each other.
Inverse(p) ==
  /\ \A o \in DOMAIN mapObjectToId[p] :
       /\ mapObjectToId[p][o] \in DOMAIN mapIdToObject[p]
       /\ mapIdToObject[p][mapObjectToId[p][o]].receiver = o
  /\ \A id \in DOMAIN mapIdToObject[p] :
       /\ mapIdToObject[p][id].receiver \in DOMAIN mapObjectToId[p]
       /\ mapObjectToId[p][mapIdToObject[p][id].receiver] = id

\* The request this step posts.
Posted ==
  LET n == Len(reqLog')
      e == Peer(handles[reqLog'[n].h].ep)
  IN  chan'[e][Len(chan'[e])]

\* This step posts a call whose argument is a function passed by proxy.
PassesFunction ==
  /\ Len(reqLog') = Len(reqLog) + 1
  /\ "args" \in DOMAIN Posted
  /\ Posted.args # <<>>
  /\ WireType(Posted.args[1]) = Str("function")

\* C23: the two registry maps are inverse of each other in every reachable
\* state, and while an object stays registered every registration of it
\* returns the id it has and raises its count by exactly one (the function of
\* process 2 is the object the calls pass by proxy).
C23_MapsInverseAndIdStable ==
  /\ [](\A p \in Procs : Inverse(p))
  /\ [][LET o == ObjRef(<<2, "api">>) IN
        (PassesFunction /\ o \in DOMAIN mapObjectToId[2]) =>
           LET id == mapObjectToId[2][o] IN
           /\ WireData(Posted.args[1]) = id
           /\ mapObjectToId'[2][o] = id
           /\ mapIdToObject'[2][id].count = mapIdToObject[2][id].count + 1
           /\ DOMAIN mapIdToObject'[2] = DOMAIN mapIdToObject[2]]_vars

\* The function of process 2 was passed twice and is registered once, under
\* one id with count 2.
C23_Witness ==
  LET o == ObjRef(<<2, "api">>) IN
  /\ o \in DOMAIN mapObjectToId[2]
  /\ mapIdToObject[2][mapObjectToId[2][o]].count = 2
  /\ Cardinality(DOMAIN mapIdToObject[2]) = 1

\* The message of request n: as the dispatcher took it, or as it waits in the
\* queue of the peer.
MessageOf(n) ==
  IF execLog[n].delivered > 0 THEN execLog[n].message
  ELSE LET q == chan[Peer(Caller(n))]
       IN  q[CHOOSE i \in 1..Len(q) : isRequest(q[i]) /\ q[i].id = n]

\* The requests by which process 2 passed a function by proxy over connection c.
PassesOver(c) ==
  {n \in 1..Len(reqLog) :
     /\ Caller(n) = <<c, 2>>
     /\ "args" \in DOMAIN MessageOf(n)
     /\ MessageOf(n).args # <<>>
     /\ WireType(MessageOf(n).args[1]) = Str("function")}

\* The releases process 2 has executed of handles process 1 got over connection c.
ReleasesOver(c) == {n \in 1..Len(reqLog) : Caller(n) = <<c, 1>> /\ Released(n)}

\* The releases process 1 has posted.
ReleasesPosted ==
  {n \in 1..Len(reqLog) : Proc(Caller(n)) = 1 /\ "release" \in DOMAIN MessageOf(n)}

\* The registry entries of process p for object o.
EntriesOf(p, o) == {id \in DOMAIN mapIdToObject[p] : mapIdToObject[p][id].receiver = o}

\* C24: passing the same local object by proxy over two different connections
\* yields a single registry entry with one id and count 2, and that entry is
\* removed only after the handles of both connections have been released:
\* when the function of process 2 was passed once over each connection, and
\* no handle was released before both passes were posted, both passes carry
\* one id; with no release executed the registry holds one entry
\* of count 2 for it, with one release executed one entry of count 1, and the
\* entry is absent only when the releases of both connections were executed.
C24_OneEntryForTwoConnections ==
  LET o == ObjRef(<<2, "api">>)
      released == ReleasesOver(1) \cup ReleasesOver(2)
  IN
  (/\ Cardinality(PassesOver(1)) = 1 /\ Cardinality(PassesOver(2)) = 1
   /\ \A r \in ReleasesPosted : \A n \in PassesOver(1) \cup PassesOver(2) : r > n) =>
     /\ \A n \in PassesOver(1) : \A m \in PassesOver(2) :
          WireData(MessageOf(n).args[1]) = WireData(MessageOf(m).args[1])
     /\ Cardinality(EntriesOf(2, o)) <= 1
     /\ released = {} =>
          /\ Cardinality(EntriesOf(2, o)) = 1
          /\ mapIdToObject[2][mapObjectToId[2][o]].count = 2
     /\ Cardinality(released) = 1 =>
          /\ Cardinality(EntriesOf(2, o)) = 1
          /\ mapIdToObject[2][mapObjectToId[2][o]].count = 1
     /\ EntriesOf(2, o) = {} => (ReleasesOver(1) # {} /\ ReleasesOver(2) # {})

\* The function was passed once over each connection, the handle of
\* connection 1 is released and the entry is still there with count 1.
C24_Witness ==
  /\ Cardinality(PassesOver(1)) = 1 /\ Cardinality(PassesOver(2)) = 1
  /\ \A r \in ReleasesPosted : \A n \in PassesOver(1) \cup PassesOver(2) : r > n
  /\ ReleasesOver(1) # {} /\ ReleasesOver(2) = {}
  /\ Cardinality(EntriesOf(2, ObjRef(<<2, "api">>))) = 1
  /\ mapIdToObject[2][mapObjectToId[2][ObjRef(<<2, "api">>)]].count = 1

\* The count the registry of process p holds for object o: 0 when it has no entry.
CountOf(p, o) ==
  IF o \in DOMAIN mapObjectToId[p] THEN mapIdToObject[p][mapObjectToId[p][o]].count ELSE 0

\* The releases of process 1 whose promise is resolved.
ReleasesResolved == {n \in ReleasesPosted : promises[n].s = "fulfilled"}

\* C25: the promise returned by release(h) settles only after the peer has
\* processed the release: in every state in which the promise of a release is
\* resolved the peer has executed that release, and its count for the
\* receiver is already lowered: the count of the function of process 2 is at
\* most the number of times it was passed less the number of resolved releases
\* of its handles.
C25_ReleaseResolvesAfterDecrement ==
  /\ \A n \in ReleasesResolved : Released(n)
  /\ CountOf(2, ObjRef(<<2, "api">>)) + Cardinality(ReleasesResolved)
        <= Cardinality(PassesOver(1) \cup PassesOver(2))

\* The function was passed over both connections, the promise of one release
\* is resolved and the count is 1.
C25_Witness ==
  /\ Cardinality(PassesOver(1) \cup PassesOver(2)) = 2
  /\ Cardinality(ReleasesResolved) = 1
  /\ CountOf(2, ObjRef(<<2, "api">>)) = 1

\* The releases posted through handle h.
ReleasesOf(h) ==
  {n \in 1..Len(reqLog) : reqLog[n].h = h /\ "release" \in DOMAIN MessageOf(n)}

\* This step is a use of handle h, which was released before.
ReleasedAgain(h) ==
  /\ ReleasesOf(h) # {}
  /\ ~handles[h].threw /\ handles'[h].threw

\* C26: release is idempotent per handle: no handle ever posts more than one
\* release, so the peer's count is not lowered a second time for it, and a
\* second release of a handle leaves the pending table, the queues, the
\* promises and the registries as they were after the first release.
C26_SecondReleaseChangesNothing ==
  /\ [](\A h \in HandleIds : Cardinality(ReleasesOf(h)) <= 1)
  /\ [][\A h \in HandleIds : ReleasedAgain(h) =>
          /\ requests' = requests /\ chan' = chan /\ promises' = promises
          /\ reqLog' = reqLog /\ execLog' = execLog
          /\ mapIdToObject' = mapIdToObject /\ mapObjectToId' = mapObjectToId
          /\ \A g \in HandleIds \ {h} : handles'[g] = handles[g]]_vars

\* A handle was released, the peer executed the release, and the handle was
\* released a second time.
C26_Witness ==
  \E h \in HandleIds : \E n \in ReleasesOf(h) :
    /\ handles[h].threw
    /\ Released(n)
    /\ promises[n].s = "fulfilled"

\* This step makes a proxy of a path longer than 1: a property was read.
ReadsProperty ==
  /\ Len(handles') > Len(handles)
  /\ Len(handles'[Len(handles')].path) > 1

IsGet(n) == DOMAIN MessageOf(n) = {"id", "path"}

\* This step is an await of handle h that delivers the handle itself.
DeliversItself(h) == "then" \in handles'[h].local \ handles[h].local

\* The messages in flight.
InFlight(ch) == Len(ch[<<1, 1>>]) + Len(ch[<<1, 2>>])

\* C28: awaiting a handle of path length 1 posts no message and delivers the
\* handle itself, while awaiting a handle of path length greater than 1 posts
\* exactly one get request carrying that path and settles with its response:
\* every get request has the path, longer than 1, of the handle awaited, its
\* promise settles only after the peer read the path, with the value read or
\* as a rejection; the step that posts it adds one message; and the await that
\* delivers the handle itself is of a path of length 1 and changes no queue,
\* pending table or promise.
C28_AwaitByPathLength ==
  /\ [](\A n \in 1..Len(reqLog) : IsGet(n) =>
          /\ Len(MessageOf(n).path) > 1
          /\ MessageOf(n).path = handles[reqLog[n].h].path
          /\ promises[n].calls <= 1
          /\ promises[n].calls = 1 =>
               /\ execLog[n].delivered = 1
               /\ execLog[n].k = "result" =>
                     promises[n].s = "fulfilled" /\ promises[n].v = execLog[n].v
               /\ execLog[n].k = "error" => promises[n].s = "rejected")
  /\ [][/\ (Len(reqLog') > Len(reqLog) /\ DOMAIN Posted = {"id", "path"}) =>
             /\ Len(reqLog') = Len(reqLog) + 1
             /\ InFlight(chan') = InFlight(chan) + 1
             /\ Cardinality(DOMAIN requests'[handles[reqLog'[Len(reqLog')].h].ep])
                  = Cardinality(DOMAIN requests[handles[reqLog'[Len(reqLog')].h].ep]) + 1
        /\ \A h \in HandleIds : DeliversItself(h) =>
             /\ Len(handles[h].path) = 1
             /\ chan' = chan /\ requests' = requests
             /\ reqLog' = reqLog /\ promises' = promises]_vars

\* The primary handle was awaited and delivered itself, and proxy.value was
\* awaited: one get request with path <<"", "value">> resolved with 42.
C28_Witness ==
  /\ \E h \in HandleIds : Len(handles[h].path) = 1 /\ "then" \in handles[h].local
  /\ \E n \in 1..Len(reqLog) :
       /\ IsGet(n)
       /\ MessageOf(n).path = <<"", "value">>
       /\ promises[n].s = "fulfilled" /\ promises[n].v = Prim(42)
  /\ Len(reqLog) = 1

\* This step is a write on handle h under a symbol.
WritesSymbol(h) == "set" \in handles'[h].local \ handles[h].local

Pending(e, id) ==
  /\ id \in 1..Len(reqLog)
  /\ Caller(id) = e
  /\ promises[id].s = "pending"

\* This step is the dispatcher of endpoint e taking a response whose id is not
\* pending on the connection.
TakesUnmatched(e) ==
  /\ chan[e] # <<>>
  /\ ~isRequest(Head(chan[e]))
  /\ chan'[e] = Tail(chan[e])
  /\ ~Pending(e, Head(chan[e]).id)

\* C30: a response whose nonce is not pending on the connection, a second
\* delivery of a settled response included, is discarded: it settles no
\* promise, mints no handle, changes no registry count and posts no message.
C30_UnmatchedResponseIsDiscarded ==
  [][\A e \in Endpoints : TakesUnmatched(e) =>
        /\ \A n \in Nonces : promises'[n].s = promises[n].s /\ promises'[n].v = promises[n].v
        /\ handles' = handles
        /\ mapIdToObject' = mapIdToObject /\ mapObjectToId' = mapObjectToId
        /\ chan' = [chan EXCEPT ![e] = Tail(@)]]_vars

\* The response to an await of proxy.store was handled twice, and the second
\* time minted a handle that reaches nobody.
C30_Witness ==
  \E n \in 1..Len(reqLog) : \E h \in HandleIds :
    /\ promises[n].calls = 2
    /\ Len(handles[h].path) = 1
    /\ ~handles[h].held

\* C31: a request whose execution is suspended at the receiving peer does not
\* delay later requests on the same connection, and both are answered once
\* the earlier promise settles: every pending request is eventually settled
\* or suspended by its own function, whatever else is suspended at the peer,
\* so a request that is no longer suspended is answered too.
C31_SuspendedRequestDelaysNoOther ==
  \A n \in Nonces :
    (promises[n].s = "pending") ~> (promises[n].s # "pending" \/ Suspended(n))

\* The call of slow is suspended at process 1 and the call posted after it is
\* executed and answered: its promise is resolved with 42.
C31_Witness ==
  /\ Len(reqLog) = 2
  /\ Suspended(1) /\ promises[1].s = "pending"
  /\ execLog[2].delivered = 1
  /\ promises[2].s = "fulfilled" /\ promises[2].v = Prim(42)

\* Request n of the create draft was executed and is a write.
IsWriteC(n) == execLog[n].delivered = 1 /\ "d" \in DOMAIN execLog[n].message

\* Request n of the create draft was executed and is a read of path.
IsReadC(n, path) ==
  /\ execLog[n].delivered = 1
  /\ DOMAIN execLog[n].message = {"n", "p"}
  /\ execLog[n].message.p = path

\* C32: in the create draft a write request is applied only when the root
\* receiver of the path is marked settable, also for writes to nested members:
\* a write against the target of process 1, which is not marked, is answered
\* with an error and changes no property of any object, so a read after it
\* resolves with the old value; a write against the target of process 2, which
\* is marked, is answered with a result and sets the member.
C32_WriteNeedsSettableRoot ==
  /\ [](/\ \A o \in Objects : o[1] = 1 => heap[o] = InitHeap[o]
        /\ \A n \in 1..Len(reqLog) :
             /\ (IsWriteC(n) /\ Proc(Caller(n)) = 2) =>
                  /\ execLog[n].k = "error"
                  /\ promises[n].calls = 1 => promises[n].s = "rejected"
             /\ (IsWriteC(n) /\ Proc(Caller(n)) = 1) => execLog[n].k = "result"
             /\ (IsReadC(n, <<"", "value">>) /\ Proc(Caller(n)) = 2
                   /\ promises[n].calls = 1) =>
                  promises[n].s = "fulfilled" /\ promises[n].v = Prim(42)
             /\ (IsReadC(n, <<"", "foo", "x">>) /\ Proc(Caller(n)) = 2
                   /\ promises[n].calls = 1) =>
                  promises[n].s = "fulfilled" /\ promises[n].v = Undefined)
  /\ [][\A e \in Endpoints : \A n \in Nonces :
          (DeliversC(e, n) /\ "d" \in DOMAIN Head(chan[e])) =>
             IF Proc(e) = 1 THEN heap' = heap
             ELSE LET path == Head(chan[e]).p
                      o == IF Len(path) = 2 THEN <<2, "api">> ELSE <<2, path[2]>>
                  IN  heap' = [heap EXCEPT ![o][path[Len(path)]] = Prim(21)]]_vars

\* Process 2 wrote proxy.foo.x = 21 and then read proxy.foo.x: the write was
\* rejected and the read resolved with undefined.
C32_Witness ==
  /\ Len(reqLog) = 2
  /\ IsWriteC(1) /\ Proc(Caller(1)) = 2
  /\ execLog[1].message.p = <<"", "foo", "x">>
  /\ promises[1].s = "rejected"
  /\ IsReadC(2, <<"", "foo", "x">>)
  /\ promises[2].s = "fulfilled" /\ promises[2].v = Undefined

\* The count the registry of process p holds under id: 0 when it has no entry.
CountAt(R, id) == IF id \in DOMAIN R THEN R[id].count ELSE 0

\* Request n is a call of a handle process 1 was passed, g(), and was executed.
IsHandleCall(n) ==
  /\ execLog[n].delivered = 1
  /\ "args" \in DOMAIN execLog[n].message
  /\ Len(execLog[n].message.path) = 1
  /\ execLog[n].message.path # <<"">>

\* C33: releasing one handle lowers the peer's count for that receiver by
\* exactly one and for no other receiver, and while another unreleased handle
\* to the same receiver exists on any connection the entry stays registered
\* and calls through that handle still resolve: the release step changes the
\* count under the released id by one and no other entry of either process;
\* the id of every unreleased handle process 1 holds is registered at process
\* 2; and every call of such a handle is executed with a result.
C33_ReleaseLowersOneCountByOne ==
  /\ [](/\ \A h \in HandleIds :
             (handles[h].held /\ ~handles[h].revoked /\ Proc(handles[h].ep) = 1
                /\ handles[h].path # <<"">>) =>
               Head(handles[h].path) \in DOMAIN mapIdToObject[2]
        /\ \A n \in 1..Len(reqLog) : IsHandleCall(n) =>
             /\ execLog[n].k = "result"
             /\ promises[n].calls = 1 => promises[n].s = "fulfilled")
  /\ [][\A e \in EndpointsTwo : \A n \in Nonces : \A id \in DOMAIN mapIdToObject[Proc(e)] :
          Releases(e, n, id) =>
            /\ CountAt(mapIdToObject'[Proc(e)], id) = mapIdToObject[Proc(e)][id].count - 1
            /\ mapIdToObject'[Proc(Peer(e))] = mapIdToObject[Proc(Peer(e))]
            /\ \A other \in DOMAIN mapIdToObject[Proc(e)] \ {id} :
                 /\ other \in DOMAIN mapIdToObject'[Proc(e)]
                 /\ mapIdToObject'[Proc(e)][other] = mapIdToObject[Proc(e)][other]]_vars

\* The function api of process 2 was passed over both connections, one handle
\* was released, and a call of the other handle, posted after the release,
\* resolved with 42.
C33_Witness ==
  \E r, c \in 1..Len(reqLog) :
    /\ Released(r) /\ IsHandleCall(c) /\ r < c
    /\ Caller(r)[1] # Caller(c)[1]
    /\ execLog[r].message.path = execLog[c].message.path
    /\ promises[c].s = "fulfilled" /\ promises[c].v = Prim(42)

\* Request n carried a value passed by handle and was answered with an error
\* raised before the value was deserialized (unknown receiver, failed path
\* walk), and the caller's promise is rejected.
FailedPass(n) ==
  LET message == execLog[n].message IN
  /\ execLog[n].delivered = 1
  /\ execLog[n].k = "error"
  /\ execLog[n].v \in {InvalidProxy, Err("TypeError")}
  /\ \/ /\ "args" \in DOMAIN message
        /\ \E i \in 1..Len(message.args) : WireType(message.args[i]) = Str("function")
     \/ /\ "value" \in DOMAIN message
        /\ WireType(message.value) = Str("function")
  /\ promises[n].s = "rejected"

\* C34: if a call or write request carrying a pass-by-handle value is answered
\* with an error raised before that value is deserialized at the peer, the
\* count taken for the value at serialization does not stay raised: when the
\* only requests so far are such requests of process 1, all answered, the
\* registry of process 1 is what it was before them.
C34_FailedPassRestoresRegistry ==
  LET before == wrap(wrap(Unwrapped, <<1, 1>>, ObjRef(<<1, "api">>)), <<1, 2>>, Undefined) IN
  (/\ reqLog # <<>>
   /\ \A n \in 1..Len(reqLog) : FailedPass(n) /\ Proc(Caller(n)) = 1
   /\ revokedIds = {}) =>
     /\ mapIdToObject[1] = before.i2o[1]
     /\ mapObjectToId[1] = before.o2i[1]

\* Process 1 called proxy.store(api) on a connection whose peer has no
\* receiver; the call was rejected with 'invalid proxy' and nothing is in flight.
C34_Witness ==
  /\ Len(reqLog) = 1
  /\ FailedPass(1) /\ Proc(Caller(1)) = 1
  /\ execLog[1].v = InvalidProxy
  /\ Quiescent
  /\ revokedIds = {}

\* This step is the listener of endpoint e taking the message at the head of
\* its queue.
Takes(e) == chan[e] # <<>> /\ chan'[e] = Tail(chan[e])

\* The registries, the objects and the handles are left as they are.
SameReceivers ==
  /\ mapIdToObject' = mapIdToObject /\ mapObjectToId' = mapObjectToId
  /\ heap' = heap /\ handles' = handles

\* C35: an incoming message is handled as at most one of request or response.
\* A message with an id and a path is a request: it is executed and answered
\* with one response of its id, and settles no promise, also when it carries a
\* result and the id of a pending request.  A message with an id and no path
\* is a response: it is answered with nothing and no receiver is touched.  A
\* message without an id is dropped: no reply is posted, no pending request is
\* settled and no registry changes.
C35_RequestOrResponseOrDropped ==
  [][\A e \in Endpoints : Takes(e) =>
       LET message == Head(chan[e]) IN
       IF "id" \notin DOMAIN message
         THEN /\ chan' = [chan EXCEPT ![e] = Tail(@)]
              /\ promises' = promises /\ requests' = requests
              /\ execLog' = execLog /\ tasks' = tasks
              /\ SameReceivers
       ELSE IF "path" \in DOMAIN message
         THEN /\ promises' = promises /\ requests' = requests
              /\ execLog'[message.id].delivered = execLog[message.id].delivered + 1
              /\ Len(chan'[Peer(e)]) = Len(chan[Peer(e)]) + 1
              /\ LET response == chan'[Peer(e)][Len(chan'[Peer(e)])] IN
                   /\ response.id = message.id
                   /\ "path" \notin DOMAIN response
       ELSE /\ chan' = [chan EXCEPT ![e] = Tail(@)]
            /\ execLog' = execLog /\ tasks' = tasks
            /\ mapIdToObject' = mapIdToObject /\ mapObjectToId' = mapObjectToId
            /\ heap' = heap]_vars

\* A message that carried the id of a pending request of process 2 with a path
\* and a result was executed as a request, the promise is still pending, and
\* a message without an id was dropped before.
C35_Witness ==
  \E n \in 1..Len(reqLog) :
    /\ Caller(n) = <<1, 2>>
    /\ promises[n].s = "pending"
    /\ execLog[n].delivered = 1
    /\ "result" \in DOMAIN execLog[n].message
    /\ chan[<<1, 1>>] # <<>> /\ Head(chan[<<1, 1>>]).id = n
    /\ \E i \in 1..Len(chan[<<1, 2>>]) : "id" \notin DOMAIN chan[<<1, 2>>][i]

\* The keys of P whose protocol accepts the value, by position.
Accepting(P, v) == {i \in 1..Len(P) : canHandle(P[i], v)}

\* A wire value that is the {data} wrapper of plain data.
IsPlainData(wire) == "t" \notin DOMAIN wire /\ "type" \notin DOMAIN wire

\* C36: serialize produces exactly one encoding per value: type plus data of the
\* first registered protocol, in registration order, that accepts the value;
\* otherwise the {data} wrapper for an object; otherwise the primitive itself.
\* No value that a protocol of the sender accepts is in flight as plain data.
C36_FirstAcceptingProtocolEncodes ==
  /\ [](\A e \in Endpoints : \A i \in 1..Len(chan[e]) :
          "args" \in DOMAIN chan[e][i] =>
            \A a \in 1..Len(chan[e][i].args) :
              IsPlainData(chan[e][i].args[a]) =>
                Accepting(protocols[Proc(Peer(e))], chan[e][i].args[a].data) = {})
  /\ [][\A h \in HandleIds : \A v \in CodecValues(Proc(handles[h].ep)) :
         apply(h, <<"store">>, <<v>>) =>
           LET e    == handles[h].ep
               P    == protocols[Proc(e)]
               wire == chan'[Peer(e)][Len(chan'[Peer(e)])].args[1]
               acc  == Accepting(P, v)
           IN  IF acc # {}
                 THEN /\ "type" \in DOMAIN wire
                      /\ \E i \in acc :
                           /\ \A j \in acc : i <= j
                           /\ wire.type = P[i]
                           /\ wire.data = IF P[i] = "_error"
                                            THEN [message |-> v.msg, stack |-> v.stack]
                                            ELSE mapObjectToId'[Proc(e)][v]
               ELSE IF IsObject(v) THEN wire = [data |-> v]
               ELSE wire = v]_vars

\* Process 2 registered the object protocol before the function protocol and
\* passed an Error and a function: the Error went as '_error', the function as
\* 'object'.
C36_Witness ==
  /\ protocols[2] = <<"_error", "object", "function">>
  /\ Len(chan[<<1, 1>>]) = 2
  /\ \A i \in 1..2 : /\ "args" \in DOMAIN chan[<<1, 1>>][i]
                      /\ "type" \in DOMAIN chan[<<1, 1>>][i].args[1]
  /\ chan[<<1, 1>>][1].args[1].type = "_error"
  /\ chan[<<1, 1>>][2].args[1].type = "object"
  /\ chan[<<1, 1>>][2].args[1].data \in DOMAIN mapIdToObject[2]
  /\ mapIdToObject[2][chan[<<1, 1>>][2].args[1].data].receiver = ObjRef(<<2, "api">>)

\* This step is a call of Proximate.wrap on endpoint e.
Wraps(e) ==
  /\ Len(wrapLog') = Len(wrapLog) + 1
  /\ wrapLog'[Len(wrapLog')].ep = e

\* C37: wrapping an endpoint that is already wrapped throws and changes
\* nothing: the set of endpoints with a listener is the same, no receiver is
\* registered or counted again, no primary id and no proxy is made, and the
\* queues, the pending requests and their promises are as before, so that the
\* connection goes on as if the call had not been made.
C37_WrapOfWrappedEndpointThrows ==
  [][\A e \in Endpoints : (Wraps(e) /\ e \in endpoints) =>
       /\ wrapLog'[Len(wrapLog')].threw
       /\ endpoints' = endpoints
       /\ mapObjectToId' = mapObjectToId /\ mapIdToObject' = mapIdToObject
       /\ idCount' = idCount /\ defaultId' = defaultId
       /\ handles' = handles
       /\ requests' = requests /\ chan' = chan /\ tasks' = tasks
       /\ promises' = promises /\ heap' = heap]_vars

\* Process 1 called wrap with its receiver on its wrapped port a second time,
\* which threw; the receiver is still counted once, and a call that process 2
\* posted after that was answered with 42.
C37_Witness ==
  \E i \in 1..Len(wrapLog) : \E n \in 1..Len(reqLog) :
    /\ wrapLog[i].ep = <<1, 1>> /\ wrapLog[i].threw
    /\ mapIdToObject[1][defaultId[<<1, 1>>]].count = 1
    /\ Len(handles) = 2
    /\ n > wrapLog[i].at
    /\ Caller(n) = <<1, 2>>
    /\ promises[n].s = "fulfilled" /\ promises[n].v = Prim(42)

\* C38: a write request that is answered with an error (the receiver is not
\* registered, the path walk failed, the value could not be deserialized, or
\* the target is no object) leaves every property of every object as it was.
C38_FailedWriteWritesNothing ==
  [][\A e \in Endpoints :
       (/\ Takes(e)
        /\ "path" \in DOMAIN Head(chan[e]) /\ "value" \in DOMAIN Head(chan[e])
        /\ Len(chan'[Peer(e)]) = Len(chan[Peer(e)]) + 1
        /\ "error" \in DOMAIN chan'[Peer(e)][Len(chan'[Peer(e)])])
       => heap' = heap]_vars

\* Both writes of process 2 were rejected, one because process 1 does not know
\* the protocol of the value and one because its path does not exist, and the
\* objects are as they were at the start.
C38_Witness ==
  /\ Len(reqLog) = 2
  /\ \A n \in 1..2 : /\ Caller(n) = <<1, 2>>
                      /\ "value" \in DOMAIN execLog[n].message
                      /\ promises[n].s = "rejected"
  /\ promises[1].v.msg = "unexpected protocol"
  /\ execLog[1].message.path = <<"", "foo", "x">>
  /\ promises[2].v.msg = "TypeError"
  /\ heap = InitHeap

\* C39: when both peers have requests in flight towards each other's receiver
\* at the same time, and when a receiver calls back into the caller through a
\* proxy while it serves a request, every pending promise is eventually
\* settled: no interleaving leaves the peers waiting on each other.
C39_CrossingRequestsSettle ==
  \A n \in Nonces : (promises[n].s = "pending") ~> (promises[n].s # "pending")

\* Both processes posted a call of the member call before either was
\* delivered (requests 1 and 2), each peer called the function back while
\* serving (requests 3 and 4), and all four promises are fulfilled with 42.
C39_Witness ==
  /\ Len(reqLog) = 4
  /\ Caller(1) # Caller(2)
  /\ \A n \in {1, 2} : /\ execLog[n].delivered = 1
                         /\ execLog[n].message.path = <<"", "call">>
  /\ \A n \in {3, 4} : "serving" \in DOMAIN reqLog[n] /\ reqLog[n].serving \in {1, 2}
  /\ \A n \in 1..4 : promises[n].s = "fulfilled" /\ promises[n].v = Prim(42)
  /\ \A e \in Endpoints : tasks[e] = {} /\ chan[e] = <<>>

====
